---- MODULE Spec2Model ----
(***************************************************************************)
(* Model of the Wolf backend: the paper-trading ledger                     *)
(* (backend/app/services/trading_service.py), the intent resolution of     *)
(* GeminiService (backend/app/services/gemini_service.py) and a turn of a  *)
(* call, process_speech (backend/app/api/endpoints/calls.py).              *)
(*                                                                         *)
(* Request handlers are coroutines on one asyncio event loop.  A coroutine *)
(* gives the loop away only at an await; the Supabase client calls         *)
(* (self.supabase...execute()) are synchronous and keep the loop.  Every   *)
(* store call is one step of the model and may raise.                      *)
(*                                                                         *)
(* Money is counted in cents.  Python evaluates the amounts in binary      *)
(* floating point; the model evaluates the same expressions exactly, an    *)
(* average price being a fraction n/d in lowest terms.                     *)
(***************************************************************************)
EXTENDS Integers, Sequences, FiniteSets, TLC

\* ---------------------------------------------------------------- bounds
MaxCalls == 2
MaxFaults == 1
MaxTurns == 1
MaxFrames == 1

\* ------------------------------------------------------------ input sets
Tasks == {"t1", "t2"}
Users == {"u1", "u2"}
UserIds == Users \cup {"u0"}
Tickers == {"AAPL", "ZZZZ"}
\* the tickers the market-data APIs know; the others get an empty answer
Listed == {"AAPL"}
ActionInputs == {"buy", "Sell", "hold"}
LivePrices == {15000}
YahooPrices == {15000}
\* cash_balance of u1 (an initial_balance given at registration) and of u2 (the
\* default 10000.0), in cents
InitialBalances == [u \in Users |-> IF u = "u1" THEN 30000 ELSE 1000000]

\* Python None, for a price
None == -1

\* A quantity argument is an int or a str
IntQty(n) == [tag |-> "int", i |-> n, s |-> ""]
StrQty(x) == [tag |-> "str", i |-> 0, s |-> x]
QuantityInputs == {IntQty(n) : n \in {-1, 0, 1, 2}} \cup {StrQty("0"), StrQty("x")}

\* ------------------------------------------------------------- fractions
RECURSIVE GCD(_, _)
GCD(a, b) == IF b = 0 THEN a ELSE GCD(b, a % b)

Rat(n, d) == LET g == GCD(n, d) IN
             IF g = 0 THEN [n |-> 0, d |-> 1] ELSE [n |-> n \div g, d |-> d \div g]
RatInt(k) == [n |-> k, d |-> 1]
RatMulInt(r, k) == Rat(r.n * k, r.d)
RatAddInt(r, k) == Rat(r.n + k * r.d, r.d)
RatDivInt(r, k) == Rat(r.n, r.d * k)

\* ------------------------------------------------------- python helpers
\* str.lower()
Lower(a) == IF a = "Sell" THEN "sell" ELSE a

\* truth value of an argument, as all([...]) takes it
TruthyStr(x) == x # ""
TruthyQty(q) == IF q.tag = "int" THEN q.i # 0 ELSE q.s # ""

\* int(quantity) succeeds
IntParses(x) == x \in {"0", "2"}
IntOfStr(x) == IF x = "2" THEN 2 ELSE 0

\* abs(quantity), line 416
AbsIdentity(n) == n
Abs(n) == IF n < 0 THEN -n ELSE n

\* ---------------------------------------------------------------- strings
\* A Python str is the sequence of its characters.
UpperCase == <<"A","B","C","D","E","F","G","H","I","J","K","L","M",
               "N","O","P","Q","R","S","T","U","V","W","X","Y","Z">>
LowerCase == <<"a","b","c","d","e","f","g","h","i","j","k","l","m",
               "n","o","p","q","r","s","t","u","v","w","x","y","z">>
DigitChars == <<"0","1","2","3","4","5","6","7","8","9">>

CharsOf(s) == {s[i] : i \in DOMAIN s}
IndexOf(c, s) == IF c \in CharsOf(s) THEN CHOOSE i \in DOMAIN s : s[i] = c ELSE 0

IsUpper(c) == c \in CharsOf(UpperCase)
IsLower(c) == c \in CharsOf(LowerCase)
IsDigit(c) == c \in CharsOf(DigitChars)
IsAlpha(c) == IsUpper(c) \/ IsLower(c)
IsAlnum(c) == IsAlpha(c) \/ IsDigit(c)
\* the class \w of re, and the class \s
WordChars == CharsOf(UpperCase) \cup CharsOf(LowerCase) \cup CharsOf(DigitChars) \cup {"_"}
IsSpace(c) == c = " "

\* str.lower(), str.upper()
StrLower(s) == [i \in DOMAIN s |-> IF IsUpper(s[i]) THEN LowerCase[IndexOf(s[i], UpperCase)] ELSE s[i]]
StrUpper(s) == [i \in DOMAIN s |-> IF IsLower(s[i]) THEN UpperCase[IndexOf(s[i], LowerCase)] ELSE s[i]]
\* str.isalpha()
StrIsAlpha(s) == s # <<>> /\ \A i \in DOMAIN s : IsAlpha(s[i])

\* kw occurs in text at index i
StartsAt(text, i, kw) ==
    i >= 1 /\ i + Len(kw) - 1 <= Len(text) /\ SubSeq(text, i, i + Len(kw) - 1) = kw
\* the Python test  kw in text
Contains(text, kw) == \E i \in 1..(Len(text) + 1) : StartsAt(text, i, kw)
\* any(kw in text for kw in kws)
ContainsAny(text, kws) == \E k \in DOMAIN kws : Contains(text, kws[k])

\* the maximal runs of characters of a class, in the order of the text
RunStarts(text, class) ==
    {i \in DOMAIN text : text[i] \in class /\ (i = 1 \/ text[i-1] \notin class)}
RunEnd(text, class, i) ==
    CHOOSE j \in i..Len(text) :
       /\ \A k \in i..j : text[k] \in class
       /\ j = Len(text) \/ text[j+1] \notin class
Runs(text, class) ==
    LET starts == RunStarts(text, class) IN
    [m \in 1..Cardinality(starts) |->
        LET i == CHOOSE x \in starts : Cardinality({y \in starts : y < x}) = m - 1
        IN SubSeq(text, i, RunEnd(text, class, i))]

\* str.split()
Split(text) == Runs(text, {c \in CharsOf(text) : ~IsSpace(c)})
\* str.strip(chars)
RECURSIVE Strip(_, _)
Strip(s, chars) ==
    IF s = <<>> THEN s
    ELSE IF s[1] \in chars THEN Strip(Tail(s), chars)
    ELSE IF s[Len(s)] \in chars THEN Strip(SubSeq(s, 1, Len(s) - 1), chars)
    ELSE s

\* int(s) of a string of digits
RECURSIVE IntOfDigits(_)
IntOfDigits(s) ==
    IF s = <<>> THEN 0
    ELSE 10 * IntOfDigits(SubSeq(s, 1, Len(s) - 1)) + (IndexOf(s[Len(s)], DigitChars) - 1)
\* str(n) of a natural number
RECURSIVE StrOfNat(_)
StrOfNat(n) == IF n < 10 THEN <<DigitChars[n + 1]>>
               ELSE Append(StrOfNat(n \div 10), DigitChars[(n % 10) + 1])

\* re.findall(r'\b[A-Z]{1,5}\b', text)
UpperWords(text) ==
    SelectSeq(Runs(text, WordChars),
              LAMBDA w : Len(w) <= 5 /\ \A i \in DOMAIN w : IsUpper(w[i]))
\* re.findall(r'\b\d+\b', text)
NumberWords(text) ==
    SelectSeq(Runs(text, WordChars), LAMBDA w : \A i \in DOMAIN w : IsDigit(w[i]))

\* ------------------------------------------------- intent resolution
\* Python None for a str field, and a key that the dict does not have
NoneStr == <<"None">>
NoKey == <<"no key">>

\* gemini_service.py, lines 261-263
conversation_keywords ==
    <<<<"w","h","a","t">>, <<"h","o","w">>, <<"w","h","e","n">>, <<"w","h","y">>,
      <<"t","e","l","l"," ","m","e">>, <<"e","x","p","l","a","i","n">>,
      <<"m","a","r","k","e","t">>, <<"o","p","i","n","i","o","n">>,
      <<"t","h","o","u","g","h","t","s">>, <<"t","h","i","n","k">>,
      <<"a","d","v","i","c","e">>, <<"s","u","g","g","e","s","t">>,
      <<"r","e","c","o","m","m","e","n","d">>, <<"p","r","e","d","i","c","t","i","o","n">>,
      <<"f","o","r","e","c","a","s","t">>>>

\* lines 282-283
buy_phrases ==
    <<<<"b","u","y">>, <<"p","u","r","c","h","a","s","e">>, <<"g","e","t">>,
      <<"a","c","q","u","i","r","e">>, <<"l","o","n","g">>,
      <<"w","a","n","t"," ","t","o"," ","b","u","y">>,
      <<"w","o","u","l","d"," ","l","i","k","e"," ","t","o"," ","b","u","y">>,
      <<"p","i","c","k"," ","u","p">>>>

sell_phrases ==
    <<<<"s","e","l","l">>, <<"s","a","l","e">>, <<"d","u","m","p">>,
      <<"g","e","t"," ","r","i","d"," ","o","f">>, <<"s","h","o","r","t">>,
      <<"u","n","l","o","a","d">>, <<"w","a","n","t"," ","t","o"," ","s","e","l","l">>,
      <<"w","o","u","l","d"," ","l","i","k","e"," ","t","o"," ","s","e","l","l">>>>

\* lines 297-301
common_tickers ==
    <<<<"a","a","p","l">>, <<"m","s","f","t">>, <<"g","o","o","g">>, <<"g","o","o","g","l">>,
      <<"a","m","z","n">>, <<"t","s","l","a">>, <<"m","e","t","a">>, <<"n","v","d","a">>,
      <<"n","f","l","x">>, <<"d","i","s">>, <<"i","n","t","c">>, <<"a","m","d">>,
      <<"s","p","y">>, <<"q","q","q">>, <<"v","o","o">>, <<"b","a","b","a">>, <<"v">>,
      <<"m","a">>, <<"p","y","p","l">>, <<"j","p","m">>, <<"w","m","t">>, <<"x","o","m">>,
      <<"k","o">>, <<"p","e","p">>, <<"t">>, <<"v","z">>, <<"c","s","c","o">>,
      <<"a","d","b","e">>, <<"c","r","m">>, <<"i","b","m">>, <<"g","s">>, <<"b","a">>,
      <<"t","g","t">>>>

\* lines 325-330, in the order of the dict
number_word_keys ==
    <<<<"o","n","e">>, <<"t","w","o">>, <<"t","h","r","e","e">>, <<"f","o","u","r">>,
      <<"f","i","v","e">>, <<"s","i","x">>, <<"s","e","v","e","n">>, <<"e","i","g","h","t">>,
      <<"n","i","n","e">>, <<"t","e","n">>, <<"t","w","e","n","t","y">>,
      <<"t","h","i","r","t","y">>, <<"f","o","r","t","y">>, <<"f","i","f","t","y">>,
      <<"h","u","n","d","r","e","d">>, <<"t","h","o","u","s","a","n","d">>>>

number_word_values ==
    <<1, 2, 3, 4, 5, 6, 7, 8, 9, 10, 20, 30, 40, 50, 100, 1000>>

\* the first element of a sequence that passes a test, or a default
FirstIndex(s, Test(_)) ==
    IF \E i \in DOMAIN s : Test(s[i])
      THEN CHOOSE i \in DOMAIN s : Test(s[i]) /\ \A j \in 1..(i-1) : ~Test(s[j])
      ELSE 0

\* lines 305-310: the word as the ticker test sees it
CleanWord(word) == SelectSeq(Strip(word, {",", ".", "!", "?"}), IsAlnum)
IsTickerWord(word) ==
    LET clean_word == CleanWord(word) IN
    \/ \E k \in DOMAIN common_tickers : common_tickers[k] = StrLower(clean_word)
    \/ Len(clean_word) <= 5 /\ StrUpper(clean_word) = clean_word /\ StrIsAlpha(clean_word)

\* lines 276-294
BasicAction(text) ==
    IF ContainsAny(text, buy_phrases) THEN <<"b","u","y">>
    ELSE IF ContainsAny(text, sell_phrases) THEN <<"s","e","l","l">>
    ELSE NoneStr
\* lines 302-310
BasicTicker(text) ==
    LET words == Split(text)
        i == FirstIndex(words, IsTickerWord)
    IN IF i = 0 THEN NoneStr ELSE StrUpper(CleanWord(words[i]))
\* lines 312-335
BasicQuantity(text) ==
    LET numbers == NumberWords(text)
        k == FirstIndex(number_word_keys, LAMBDA w : Contains(text, w))
    IN IF numbers # <<>> THEN IntOfDigits(numbers[1])
       ELSE IF k # 0 THEN number_word_values[k]
       ELSE None

\* GeminiService._basic_intent_parsing, lines 256-338
ConversationIntent(transcription) ==
    [is_conversation |-> TRUE, query |-> transcription,
     action |-> NoneStr, ticker |-> NoneStr, quantity |-> None]
BasicIntentIgnoringConversation(transcription) ==
    LET text == StrLower(transcription) IN
    [is_conversation |-> FALSE, query |-> NoKey,
     action |-> BasicAction(text), ticker |-> BasicTicker(text),
     quantity |-> BasicQuantity(text)]
basic_intent_parsing(transcription) ==
    LET text == StrLower(transcription) IN
    IF ContainsAny(text, conversation_keywords)
      THEN ConversationIntent(transcription)
      ELSE [is_conversation |-> FALSE, query |-> NoKey,
            action |-> BasicAction(text), ticker |-> BasicTicker(text),
            quantity |-> BasicQuantity(text)]

\* ------------------------------------------------------ language model
\* self.model after __init__ (lines 18-41): a GenerativeModel, or None
Models == {"present", "absent"}

\* What one generate_content_async call does: it raises, or it returns text.
\* The text is kept as characters where the code reads it as text, and as the
\* dict json.loads makes of it where the code reads it as JSON: kind "text"
\* has no {...} in it, kind "badjson" has one that json.loads rejects.
\* A JSON value that is no str, and a quantity that int() rejects
NonStr == <<"no str">>
BadQty == -2
NoObj == [is_conversation |-> FALSE, query |-> NoKey, action |-> NoKey, ticker |-> NoKey,
          quantity |-> None, rationale |-> NoKey]
LMRaise == [kind |-> "raise", text |-> <<>>, obj |-> NoObj]
LMText(s) == [kind |-> "text", text |-> s, obj |-> NoObj]
LMBadJson == [kind |-> "badjson", text |-> <<"{">>, obj |-> NoObj]
LMJson(o) == [kind |-> "json", text |-> <<"{","}">>, obj |-> o]

\* truth value of a dict field, as all([...]) and `not x` take it
TruthyField(x) == x \notin {NoKey, NoneStr, <<>>}
TruthyNum(q) == q \notin {None, 0}
IsStr(x) == x \notin {NoKey, NoneStr, NonStr}
\* dict.get(key) is None
IsNoneField(x) == x \in {NoKey, NoneStr}

\* the intent dict, without the key the recommendation has
Intent(o) == [is_conversation |-> o.is_conversation, query |-> o.query, action |-> o.action,
              ticker |-> o.ticker, quantity |-> o.quantity]

\* GeminiService.generate_trading_order, lines 608-685
generate_trading_order(transcription, model, reply) ==
    IF model = "absent" THEN basic_intent_parsing(transcription)
    ELSE IF reply.kind # "json" THEN basic_intent_parsing(transcription)
    ELSE LET parsed_order == reply.obj IN
         IF parsed_order.is_conversation THEN Intent(parsed_order)
         ELSE IF /\ TruthyField(parsed_order.action) /\ TruthyField(parsed_order.ticker)
                 /\ TruthyNum(parsed_order.quantity)
                 /\ IsStr(parsed_order.action) /\ IsStr(parsed_order.ticker)
                 /\ parsed_order.quantity # BadQty
           THEN [Intent(parsed_order) EXCEPT !.action = StrLower(parsed_order.action),
                                             !.ticker = StrUpper(parsed_order.ticker),
                                             !.is_conversation = FALSE]
         ELSE basic_intent_parsing(transcription)

\* lines 244-254: the fallback of parse_trading_intent
NotConversation(intent) == [intent EXCEPT !.is_conversation = FALSE]

\* GeminiService.parse_trading_intent, lines 144-254; classification is the
\* reply to the first prompt, reply the one to the second
parse_trading_intent(transcription, model, classification, reply) ==
    LET basic_result == basic_intent_parsing(transcription) IN
    IF model = "absent" THEN basic_result
    ELSE IF classification.kind = "raise" THEN NotConversation(basic_result)
    ELSE IF Contains(StrUpper(classification.text), <<"C","O","N","V","E","R","S","A","T","I","O","N">>)
      THEN ConversationIntent(transcription)
    ELSE IF reply.kind # "json" THEN NotConversation(basic_result)
    ELSE LET parsed_intent == Intent(reply.obj)
             Fill(mine, basic, truthy) == IF IsNoneField(mine) /\ truthy THEN basic ELSE mine
         IN
         IF /\ TruthyField(parsed_intent.action) /\ TruthyField(parsed_intent.ticker)
            /\ TruthyNum(parsed_intent.quantity)
           THEN NotConversation(parsed_intent)
           ELSE [parsed_intent EXCEPT
                   !.is_conversation = FALSE,
                   !.action = Fill(parsed_intent.action, basic_result.action,
                                   TruthyField(basic_result.action)),
                   !.ticker = Fill(parsed_intent.ticker, basic_result.ticker,
                                   TruthyField(basic_result.ticker)),
                   !.quantity = IF parsed_intent.quantity = None
                                   /\ TruthyNum(basic_result.quantity)
                                  THEN basic_result.quantity ELSE parsed_intent.quantity]

\* lines 431-435
price_check_keywords ==
    <<<<"p","r","i","c","e">>, <<"w","o","r","t","h">>,
      <<"t","r","a","d","i","n","g"," ","a","t">>, <<"q","u","o","t","e">>,
      <<"g","o","i","n","g"," ","f","o","r">>, <<"h","o","w"," ","m","u","c","h"," ","i","s">>,
      <<"w","h","a","t","'","s"," ","t","h","e"," ","p","r","i","c","e">>,
      <<"w","h","a","t"," ","i","s"," ","t","h","e"," ","p","r","i","c","e">>,
      <<"h","o","w"," ","i","s">>, <<"w","h","e","r","e"," ","i","s">>,
      <<"c","u","r","r","e","n","t"," ","p","r","i","c","e">>,
      <<"s","t","o","c","k"," ","p","r","i","c","e">>>>

\* lines 473-477, in the order of the dict
name_to_ticker_keys ==
    <<<<"a","p","p","l","e">>, <<"m","i","c","r","o","s","o","f","t">>,
      <<"g","o","o","g","l","e">>, <<"a","m","a","z","o","n">>, <<"t","e","s","l","a">>,
      <<"f","a","c","e","b","o","o","k">>, <<"m","e","t","a">>,
      <<"n","e","t","f","l","i","x">>, <<"d","i","s","n","e","y">>,
      <<"n","v","i","d","i","a">>, <<"a","m","d">>, <<"i","n","t","e","l">>>>

name_to_ticker_values ==
    <<<<"A","A","P","L">>, <<"M","S","F","T">>, <<"G","O","O","G","L">>, <<"A","M","Z","N">>,
      <<"T","S","L","A">>, <<"M","E","T","A">>, <<"M","E","T","A">>, <<"N","F","L","X">>,
      <<"D","I","S">>, <<"N","V","D","A">>, <<"A","M","D">>, <<"I","N","T","C">>>>

\* GeminiService._check_for_price_query, lines 420-484: <<is_price_check, ticker>>
check_for_price_query(query, model, reply) ==
    LET query_lower == StrLower(query)
        is_price_check == ContainsAny(query_lower, price_check_keywords)
        potential_ticker == StrUpper(Strip(reply.text, {" "}))
        ticker_matches == UpperWords(query)
        k == FirstIndex(name_to_ticker_keys, LAMBDA name : Contains(query_lower, name))
    IN
    IF ~is_price_check THEN <<FALSE, NoneStr>>
    ELSE IF /\ model = "present" /\ reply.kind # "raise"
            /\ potential_ticker # <<"N","O","N","E">> /\ Len(potential_ticker) <= 5
            /\ StrIsAlpha(potential_ticker)
      THEN <<TRUE, potential_ticker>>
    ELSE IF ticker_matches # <<>> THEN <<TRUE, ticker_matches[1]>>
    ELSE IF k # 0 THEN <<TRUE, name_to_ticker_values[k]>>
    ELSE <<TRUE, NoneStr>>

\* lines 716-721, 790-795, 799-804
canned_rationale ==
    <<"A","p","p","l","e","'","s"," ","l","o","o","k","i","n","g"," ",
      "s","t","r","o","n","g"," ","w","i","t","h"," ","t","h","e"," ","n","e","w"," ","p",
      "r","o","d","u","c","t"," ","l","i","n","e","u","p","."," ","I","'","d"," ","r","e",
      "c","o","m","m","e","n","d"," ","g","r","a","b","b","i","n","g"," ","s","o","m","e",
      " ","s","h","a","r","e","s"," ","b","e","f","o","r","e"," ","t","h","e"," ","n","e",
      "x","t"," ","e","a","r","n","i","n","g","s"," ","c","a","l","l",".">>
canned_recommendation ==
    [ticker |-> <<"A","A","P","L">>, action |-> <<"b","u","y">>, quantity |-> 10,
     rationale |-> canned_rationale]

\* the recommendation dict
Recommendation(o) ==
    [ticker |-> o.ticker, action |-> o.action, quantity |-> o.quantity,
     rationale |-> o.rationale]

\* GeminiService.generate_stock_recommendation, lines 701-804
RecommendationUnchecked(model, reply) ==
    IF model = "absent" \/ reply.kind # "json" THEN canned_recommendation
    ELSE Recommendation(reply.obj)
generate_stock_recommendation(model, reply) ==
    IF model = "absent" THEN canned_recommendation
    ELSE IF reply.kind # "json" THEN canned_recommendation
    ELSE LET recommendation == reply.obj IN
         IF /\ TruthyField(recommendation.ticker) /\ TruthyField(recommendation.action)
            /\ TruthyNum(recommendation.quantity) /\ TruthyField(recommendation.rationale)
            /\ IsStr(recommendation.ticker) /\ IsStr(recommendation.action)
            /\ recommendation.quantity # BadQty
           THEN [Recommendation(recommendation) EXCEPT
                   !.ticker = StrUpper(recommendation.ticker),
                   !.action = StrLower(recommendation.action)]
           ELSE canned_recommendation

\* ------------------------------------------------------ spoken texts
\* "Sorry, there was a problem identifying your account. Please try again later."
NO_TO_NUMBER ==
    <<"S","o","r","r","y",","," ","t","h","e","r","e"," ","w","a","s"," ","a"," ","p","r",
      "o","b","l","e","m"," ","i","d","e","n","t","i","f","y","i","n","g"," ","y","o","u",
      "r"," ","a","c","c","o","u","n","t","."," ","P","l","e","a","s","e"," ","t","r","y",
      " ","a","g","a","i","n"," ","l","a","t","e","r",".">>
\* "Sorry, I couldn't find your account. Please register on our website first."
NO_ACCOUNT ==
    <<"S","o","r","r","y",","," ","I"," ","c","o","u","l","d","n","'","t"," ","f","i","n",
      "d"," ","y","o","u","r"," ","a","c","c","o","u","n","t","."," ","P","l","e","a","s",
      "e"," ","r","e","g","i","s","t","e","r"," ","o","n"," ","o","u","r"," ","w","e","b",
      "s","i","t","e"," ","f","i","r","s","t",".">>
\* "I didn't catch that. Could you please repeat?"
REPEAT ==
    <<"I"," ","d","i","d","n","'","t"," ","c","a","t","c","h"," ","t","h","a","t","."," ",
      "C","o","u","l","d"," ","y","o","u"," ","p","l","e","a","s","e"," ","r","e","p","e",
      "a","t","?">>
\* "I couldn't process that trade request because some required information is missing. Please provide a stock ticker symbol and quantity."
MISSING_INFORMATION ==
    <<"I"," ","c","o","u","l","d","n","'","t"," ","p","r","o","c","e","s","s"," ","t","h",
      "a","t"," ","t","r","a","d","e"," ","r","e","q","u","e","s","t"," ","b","e","c","a",
      "u","s","e"," ","s","o","m","e"," ","r","e","q","u","i","r","e","d"," ","i","n","f",
      "o","r","m","a","t","i","o","n"," ","i","s"," ","m","i","s","s","i","n","g","."," ",
      "P","l","e","a","s","e"," ","p","r","o","v","i","d","e"," ","a"," ","s","t","o","c",
      "k"," ","t","i","c","k","e","r"," ","s","y","m","b","o","l"," ","a","n","d"," ","q",
      "u","a","n","t","i","t","y",".">>
\* "Sorry, there was a problem processing your request. Please try again."
PROBLEM ==
    <<"S","o","r","r","y",","," ","t","h","e","r","e"," ","w","a","s"," ","a"," ","p","r",
      "o","b","l","e","m"," ","p","r","o","c","e","s","s","i","n","g"," ","y","o","u","r",
      " ","r","e","q","u","e","s","t","."," ","P","l","e","a","s","e"," ","t","r","y"," ",
      "a","g","a","i","n",".">>
\* "What would you like to do?"
WHAT_TO_DO ==
    <<"W","h","a","t"," ","w","o","u","l","d"," ","y","o","u"," ","l","i","k","e"," ","t",
      "o"," ","d","o","?">>
\* "Anything else you'd like to do?"
prompt_text ==
    <<"A","n","y","t","h","i","n","g"," ","e","l","s","e"," ","y","o","u","'","d"," ","l",
      "i","k","e"," ","t","o"," ","d","o","?">>
\* "The markets have been quite volatile lately. I'd recommend diversifying your portfolio. Anything specific you'd like to know?"
VOLATILE ==
    <<"T","h","e"," ","m","a","r","k","e","t","s"," ","h","a","v","e"," ","b","e","e","n",
      " ","q","u","i","t","e"," ","v","o","l","a","t","i","l","e"," ","l","a","t","e","l",
      "y","."," ","I","'","d"," ","r","e","c","o","m","m","e","n","d"," ","d","i","v","e",
      "r","s","i","f","y","i","n","g"," ","y","o","u","r"," ","p","o","r","t","f","o","l",
      "i","o","."," ","A","n","y","t","h","i","n","g"," ","s","p","e","c","i","f","i","c",
      " ","y","o","u","'","d"," ","l","i","k","e"," ","t","o"," ","k","n","o","w","?">>
\* "Look, the markets are always changing, but your strategy shouldn't. Let's focus on building a solid portfolio with good fundamentals. What are you thinking about investing in?"
ALWAYS_CHANGING ==
    <<"L","o","o","k",","," ","t","h","e"," ","m","a","r","k","e","t","s"," ","a","r","e",
      " ","a","l","w","a","y","s"," ","c","h","a","n","g","i","n","g",","," ","b","u","t",
      " ","y","o","u","r"," ","s","t","r","a","t","e","g","y"," ","s","h","o","u","l","d",
      "n","'","t","."," ","L","e","t","'","s"," ","f","o","c","u","s"," ","o","n"," ","b",
      "u","i","l","d","i","n","g"," ","a"," ","s","o","l","i","d"," ","p","o","r","t","f",
      "o","l","i","o"," ","w","i","t","h"," ","g","o","o","d"," ","f","u","n","d","a","m",
      "e","n","t","a","l","s","."," ","W","h","a","t"," ","a","r","e"," ","y","o","u"," ",
      "t","h","i","n","k","i","n","g"," ","a","b","o","u","t"," ","i","n","v","e","s","t",
      "i","n","g"," ","i","n","?">>
\* calls.py line 483
positive_responses ==
    <<<<"y","e","s">>,
      <<"y","e","a","h">>,
      <<"s","u","r","e">>,
      <<"o","k","a","y">>,
      <<"o","k">>,
      <<"l","e","t","'","s"," ","d","o"," ","i","t">>,
      <<"s","o","u","n","d","s"," ","g","o","o","d">>,
      <<"i"," ","a","g","r","e","e">>,
      <<"g","o"," ","a","h","e","a","d">>>>
\* calls.py line 510
pitch_sell_phrases ==
    <<<<"s","e","l","l">>,
      <<"d","u","m","p">>,
      <<"g","e","t"," ","r","i","d"," ","o","f">>>>
\* the word of the pattern (\d+)\s+shares, line 520
SHARES ==
    <<"s","h","a","r","e","s">>

\* ---------------------------------------------------- composed texts
\* str(x) of a field of an intent in an f-string
StrField(x) == IF x \in {NoneStr, NoKey} THEN <<"N","o","n","e">> ELSE x
StrNum(q) == IF q = None THEN <<"N","o","n","e">> ELSE StrOfNat(q)

\* an amount of cents as the format :.2f prints the float of dollars
Fmt2(cents) ==
    StrOfNat(cents \div 100) \o <<".">> \o
    (IF cents % 100 < 10 THEN <<"0">> ELSE <<>>) \o StrOfNat(cents % 100)
\* an amount of cents as str() prints the float of dollars: 150.0, 188.38
FloatRepr(cents) ==
    StrOfNat(cents \div 100) \o <<".">> \o
    (IF cents % 10 = 0 THEN StrOfNat((cents % 100) \div 10)
     ELSE (IF cents % 100 < 10 THEN <<"0">> ELSE <<>>) \o StrOfNat(cents % 100))
\* a fraction of cents, to the nearest cent
RoundCents(r) == (2 * r.n + r.d) \div (2 * r.d)
\* (price - avg_price) / avg_price * 100, in hundredths of a percent
ProfitLoss(price, avg_price) ==
    LET num == (price * avg_price.d - avg_price.n) * 10000
        den == avg_price.n
    IN IF den <= 0 THEN 0
       ELSE IF num >= 0 THEN (2 * num + den) \div (2 * den)
       ELSE -((2 * (-num) + den) \div (2 * den))

\* GeminiService._template_broker_response, lines 687-699; error is the message
\* of the result, price the price of a successful one
template_broker_response(user_intent, status, error, price) ==
    LET action == StrField(user_intent.action)
        ticker == StrField(user_intent.ticker)
        quantity == StrNum(user_intent.quantity)
    IN
    IF status = "success"
      THEN
            <<"B","o","o","m","!"," ","J","u","s","t"," ">>
         \o action
         \o <<"e","d"," ">>
         \o quantity
         \o <<" ","s","h","a","r","e","s"," ","o","f"," ">>
         \o ticker
         \o <<" ","a","t"," ","$">>
         \o FloatRepr(price)
         \o <<"."," ","Y","o","u","'","v","e"," ","g","o","t"," ","t","h","e"," ","M","i",
              "d","a","s"," ","t","o","u","c","h",","," ","b","a","b","y","!">>
      ELSE
            <<"N","o"," ","d","i","c","e"," ","o","n"," ","t","h","a","t"," ">>
         \o ticker
         \o <<" ">>
         \o action
         \o <<" ","d","u","e"," ","t","o"," ">>
         \o error
         \o <<"."," ","L","e","t","'","s"," ","p","i","v","o","t"," ","a","n","d"," ","f",
              "i","n","d"," ","y","o","u"," ","a","n","o","t","h","e","r"," ","k","i","l",
              "l","e","r"," ","o","p","p","o","r","t","u","n","i","t","y","!">>

\* GeminiService._generate_price_check_response, lines 486-548.  price is what
\* get_stock_price returned, positions the rows of user_data['positions'] with
\* the ticker, discussed whether a Broker entry of the transcript has the
\* ticker in it, even what abs(hash(ticker)) % 2 == 0 gives in this process
NoPriceResponse(ticker) ==
       <<"I"," ","c","o","u","l","d","n","'","t"," ","g","e","t"," ","t","h","e"," ","p",
         "r","i","c","e"," ","f","o","r"," ">>
    \o ticker
    \o <<" ","r","i","g","h","t"," ","n","o","w","."," ","T","h","e"," ","m","a","r","k",
         "e","t"," ","d","a","t","a"," ","f","e","e","d"," ","s","e","e","m","s"," ","t",
         "o"," ","b","e"," ","h","a","v","i","n","g"," ","i","s","s","u","e","s","."," ",
         "W","a","n","t"," ","t","o"," ","c","h","e","c","k"," ","a","n","o","t","h","e",
         "r"," ","t","i","c","k","e","r","?">>
PriceCheckFailed(ticker) ==
       <<"I"," ","t","r","i","e","d"," ","t","o"," ","g","e","t"," ","t","h","e"," ","l",
         "a","t","e","s","t"," ","q","u","o","t","e"," ","o","n"," ">>
    \o ticker
    \o <<","," ","b","u","t"," ","o","u","r"," ","d","a","t","a"," ","f","e","e","d"," ",
         "i","s"," ","a","c","t","i","n","g"," ","u","p","."," ","L","e","t"," ","m","e",
         " ","k","n","o","w"," ","i","f"," ","y","o","u"," ","w","a","n","t"," ","t","o",
         " ","c","h","e","c","k"," ","a","n","o","t","h","e","r"," ","s","t","o","c","k",
         " ","o","r"," ","d","i","s","c","u","s","s"," ","s","o","m","e"," ","t","r","a",
         "d","i","n","g"," ","i","d","e","a","s",".">>
ContextInfo(ticker, discussed) ==
    IF discussed THEN
         <<" ","A","s"," ","I"," ","m","e","n","t","i","o","n","e","d"," ","e","a","r","l",
           "i","e","r"," ","a","b","o","u","t"," ">>
      \o ticker
      \o <<",">>
    ELSE <<>>
OwnedUp(ticker, price, context_info, position) ==
       ticker
    \o <<" ","i","s"," ","t","r","a","d","i","n","g"," ","a","t"," ","$">>
    \o Fmt2(price)
    \o <<" ","r","i","g","h","t"," ","n","o","w",".">>
    \o context_info
    \o <<" ","Y","o","u","'","v","e"," ","g","o","t"," ">>
    \o StrOfNat(position.quantity)
    \o <<" ","s","h","a","r","e","s"," ","a","t"," ","a","n"," ","a","v","e","r","a","g",
         "e"," ","c","o","s","t"," ","o","f"," ","$">>
    \o Fmt2(RoundCents(position.avg_price))
    \o <<","," ","s","o"," ","y","o","u","'","r","e"," ","u","p"," ","a","b","o","u","t"," ">>
    \o Fmt2(ProfitLoss(price, position.avg_price))
    \o <<"%"," ","o","n"," ","t","h","i","s"," ","p","o","s","i","t","i","o","n","."," ",
         "N","i","c","e"," ","w","o","r","k","!"," ","W","a","n","t"," ","t","o"," ","a",
         "d","d"," ","t","o"," ","y","o","u","r"," ","p","o","s","i","t","i","o","n"," ",
         "w","h","i","l","e"," ","i","t","'","s"," ","h","o","t","?">>
OwnedDown(ticker, price, context_info, position) ==
       ticker
    \o <<" ","i","s"," ","a","t"," ","$">>
    \o Fmt2(price)
    \o <<" ","r","i","g","h","t"," ","n","o","w",".">>
    \o context_info
    \o <<" ","Y","o","u","'","v","e"," ","g","o","t"," ">>
    \o StrOfNat(position.quantity)
    \o <<" ","s","h","a","r","e","s"," ","a","t"," ","a","n"," ","a","v","e","r","a","g",
         "e"," ","o","f"," ","$">>
    \o Fmt2(RoundCents(position.avg_price))
    \o <<","," ","s","o"," ","y","o","u","'","r","e"," ","d","o","w","n"," ","a","b","o",
         "u","t"," ">>
    \o Fmt2(Abs(ProfitLoss(price, position.avg_price)))
    \o <<"%","."," ","C","o","u","l","d"," ","b","e"," ","a"," ","b","u","y","i","n","g",
         " ","o","p","p","o","r","t","u","n","i","t","y"," ","i","f"," ","y","o","u"," ",
         "w","a","n","t"," ","t","o"," ","a","v","e","r","a","g","e"," ","d","o","w","n",
         "."," ","W","h","a","t"," ","d","o"," ","y","o","u"," ","t","h","i","n","k","?">>
NotOwned(ticker, price, context_info, even) ==
       ticker
    \o <<" ","i","s"," ","c","u","r","r","e","n","t","l","y"," ","t","r","a","d","i","n",
         "g"," ","a","t"," ","$">>
    \o Fmt2(price)
    \o <<".">>
    \o context_info
    \o <<" ","T","h","e"," ","s","t","o","c","k"," ","i","s"," ","l","o","o","k","i","n",
         "g"," ">>
    \o (IF even THEN <<"b","u","l","l","i","s","h">> ELSE <<"s","h","o","w","i","n","g"," ","s","o","m","e"," ","w","e","a","k","n","e","s","s">>)
    \o <<" ","t","o","d","a","y","."," ","Y","o","u"," ","d","o","n","'","t"," ","h","a",
         "v","e"," ","a","n","y"," ","p","o","s","i","t","i","o","n"," ","i","n"," ","t",
         "h","i","s"," ","o","n","e"," ","y","e","t"," ","-"," ","w","a","n","t"," ","t",
         "o"," ","g","r","a","b"," ","s","o","m","e"," ","s","h","a","r","e","s","?">>

\* The ledger names tickers, actions and messages by one string each (a
\* message without the ticker or the number that the code puts in it); the
\* texts of a turn are sequences of characters.  Spelling gives the characters
\* of each name.
Spelling ==
    ("AAPL" :> <<"A","A","P","L">>)
    @@ ("ZZZZ" :> <<"Z","Z","Z","Z">>)
    @@ ("I" :> <<"I">>)
    @@ ("buy" :> <<"b","u","y">>)
    @@ ("sell" :> <<"s","e","l","l">>)
    @@ ("Missing required trade parameters" :> <<"M","i","s","s","i","n","g"," ","r","e","q","u","i","r","e","d"," ","t","r","a","d","e"," ","p","a","r","a","m","e","t","e","r","s">>)
    @@ ("Invalid quantity" :> <<"I","n","v","a","l","i","d"," ","q","u","a","n","t","i","t","y">>)
    @@ ("Quantity must be greater than 0" :> <<"Q","u","a","n","t","i","t","y"," ","m","u","s","t"," ","b","e"," ","g","r","e","a","t","e","r"," ","t","h","a","n"," ","0">>)
    @@ ("Could not get price" :> <<"C","o","u","l","d"," ","n","o","t"," ","g","e","t"," ","p","r","i","c","e">>)
    @@ ("You don't own any shares" :> <<"Y","o","u"," ","d","o","n","'","t"," ","o","w","n"," ","a","n","y"," ","s","h","a","r","e","s">>)
    @@ ("You only have fewer shares" :> <<"Y","o","u"," ","o","n","l","y"," ","h","a","v","e"," ","f","e","w","e","r"," ","s","h","a","r","e","s">>)
    @@ ("User not found" :> <<"U","s","e","r"," ","n","o","t"," ","f","o","u","n","d">>)
    @@ ("Insufficient funds for this trade" :> <<"I","n","s","u","f","f","i","c","i","e","n","t"," ","f","u","n","d","s"," ","f","o","r"," ","t","h","i","s"," ","t","r","a","d","e">>)
    @@ ("exception" :> <<"e","x","c","e","p","t","i","o","n">>)
    @@ ("Successfully executed" :> <<"S","u","c","c","e","s","s","f","u","l","l","y"," ","e","x","e","c","u","t","e","d">>)

\* ------------------------------------------------------- quote provider
fallback_prices == [x \in {"AAPL"} |-> 18838]

AVResponses(ticker) ==
    {[kind |-> "quote", price |-> p] : p \in (IF ticker \in Listed THEN LivePrices ELSE {}) \cup {0}}
    \cup {[kind |-> k, price |-> 0] : k \in {"empty", "note", "raise"}}
YahooResults(ticker) == (IF ticker \in Listed THEN YahooPrices ELSE {}) \cup {None}

get_stock_price(ticker, av, hasKey, yahoo) ==
    IF av.kind = "raise" THEN None
    ELSE IF av.kind = "quote" /\ av.price > 0 THEN av.price
    ELSE IF av.kind = "note" /\ hasKey /\ yahoo # None THEN yahoo
    ELSE IF ticker \in DOMAIN fallback_prices THEN fallback_prices[ticker]
    ELSE None

\* ----------------------------------------------------------------- state
VARIABLES
    users,       \* table users: id -> cash_balance
    portfolios,  \* table portfolios: set of position rows
    trades,      \* table trades: sequence of trade records, in insertion order
    nextId,      \* next primary key of a portfolios row
    task,        \* per coroutine: position in execute_paper_trade and its locals
    running,     \* the coroutine that holds the event loop, or "none"
    returned,    \* the result dict of the call that returned last
    calls,       \* number of execute_paper_trade calls started
    faults,      \* number of store calls that raised
    model,       \* GeminiService.model: "present", or "absent" for None
    gem,         \* one call of a GeminiService method: its inputs and its result
    call_logs,   \* table call_logs: the transcript entries, in insertion order
    turn,        \* process_speech: its position and its locals
    spoken,      \* what process_speech returned last: the texts the TwiML says
    lookup,      \* get_user_portfolio: its position, its locals and its result
    request,     \* execute_trade (POST /api/trades/execute): position and response
    active_connections, \* ConnectionManager.active_connections, a list
    inbound,     \* handle_inbound_call: its position, its locals and what it says
    call_rows,   \* table calls: the rows, in insertion order
    active_calls, \* ElevenLabsTwilioService.active_calls: stream id -> entry
    handler,     \* per WebSocket connection: handle_websocket's position and locals
    frames       \* per WebSocket connection: the media frames sent to it

ledgerVars == <<users, portfolios, trades, nextId, task, running, returned, calls, faults>>
gemVars == <<model, gem>>
speechVars == <<call_logs, turn, spoken>>
portfolioVars == <<lookup>>
tradesVars == <<request, active_connections>>
inboundVars == <<inbound, call_rows>>
streamVars == <<active_calls, handler, frames>>
apiVars == <<portfolioVars, tradesVars, inboundVars, streamVars>>
OtherThanPortfolio == <<gemVars, speechVars, tradesVars, inboundVars, streamVars>>
OtherThanTrades == <<gemVars, speechVars, portfolioVars, inboundVars, streamVars>>
\* handle_inbound_call writes call_logs
OtherThanInbound == <<gemVars, turn, spoken, portfolioVars, tradesVars, streamVars>>
OtherThanStream == <<ledgerVars, gemVars, speechVars, portfolioVars, tradesVars, inboundVars>>
vars == <<users, portfolios, trades, nextId, task, running, returned, calls, faults,
          model, gem, call_logs, turn, spoken, lookup, request, active_connections,
          inbound, call_rows, active_calls, handler, frames>>

NoPos == [id |-> 0, user_id |-> "", ticker |-> "", quantity |-> 0, avg_price |-> RatInt(0)]
NoStore == [users |-> <<>>, portfolios |-> {}, trades |-> <<>>]

\* the three tables, as one value
Store == [users |-> users, portfolios |-> portfolios, trades |-> trades]

IdleTask == [pc |-> "idle", user_id |-> "", action |-> "", ticker |-> "",
             rawq |-> IntQty(0), quantity |-> 0, price |-> None, trade_value |-> 0,
             position |-> NoPos, cash_balance |-> 0, pre |-> NoStore]

NoResult == [status |-> "", message |-> ""]

\* u1 holds what an earlier buy of 2 AAPL left, u2 holds nothing
InitialPortfolio ==
    {[id |-> 1, user_id |-> "u1", ticker |-> "AAPL", quantity |-> 2,
      avg_price |-> RatInt(15000)]}

StorePcs == {"select_portfolio", "select_cash", "update_cash", "write_position", "insert_trade"}

\* the store and the coroutines before any call
LedgerInit ==
    /\ users = InitialBalances
    /\ portfolios = InitialPortfolio
    /\ trades = <<>>
    /\ nextId = 2
    /\ task = [t \in Tasks |-> IdleTask]
    /\ running = "none"
    /\ returned = NoResult
    /\ calls = 0
    /\ faults = 0

\* no GeminiService method has been called, no call is in progress
NoGem == [fn |-> "none", transcription |-> <<>>, reply |-> LMRaise, reply2 |-> LMRaise,
          intent |-> Intent(NoObj), price_query |-> <<FALSE, NoneStr>>,
          recommendation |-> Recommendation(NoObj)]
\* user_data: what get_user_summary returned, None or the dict with the keys
\* that process_speech and the response generators read
NoUserData == [none |-> TRUE, positions |-> {}, call_transcript |-> <<>>]
UserData(rows, call_transcript) ==
    [none |-> FALSE, positions |-> rows, call_transcript |-> call_transcript]
\* process_speech is not running; n counts the turns started
IdleTurn == [pc |-> "idle", n |-> 0, user_id |-> "", transcription |-> <<>>,
             is_price_check |-> FALSE, ticker |-> NoneStr, user_data |-> NoUserData,
             trading_intent |-> Intent(NoObj), broker_response |-> <<>>]
NoSpeech == <<>>
\* get_user_portfolio is not running
NoLookup == [pc |-> "idle", user_id |-> "", cash_balance |-> 0, portfolio_data |-> <<>>,
             current_prices |-> <<>>, raised |-> FALSE, portfolio_value |-> 0,
             positions |-> <<>>]
GemIdle == model = "absent" /\ gem = NoGem
SpeechIdle == call_logs = <<>> /\ turn = IdleTurn /\ spoken = NoSpeech
\* no request is at the endpoint, no WebSocket client is connected
NoRequest == [pc |-> "idle", user_id |-> "", pre |-> NoStore, connection |-> 0,
              status_code |-> 0]
\* no inbound call is being handled
NoInbound == [pc |-> "idle", caller_number |-> <<>>, call_sid |-> "",
              formatted_phone |-> <<>>, user_id |-> "", user_data_none |-> FALSE,
              broker_intro |-> <<>>, said |-> <<>>]
\* no call has a media stream, no WebSocket connection was made
NoCalls == <<>>
ClosedHandler == [pc |-> "closed", client |-> "gone", stream_sid |-> "", text |-> "",
                  websocket |-> "", played |-> ""]
ApiIdle ==
    /\ lookup = NoLookup /\ request = NoRequest /\ active_connections = <<>>
    /\ inbound = NoInbound /\ call_rows = <<>>
    /\ active_calls = NoCalls /\ handler = <<>> /\ frames = <<>>

Init == LedgerInit /\ GemIdle /\ SpeechIdle /\ ApiIdle

\* the result dict of a call
Result(st, msg) == [status |-> st, message |-> msg]

\* line 422
PriceMissingNever(price) == FALSE
PriceMissing(price) == price = None

\* The Supabase client is synchronous: .execute() blocks and the coroutine
\* still holds the event loop when it returns.
AfterStoreCallAwaited(t) == "none"
AfterStoreCall(t) == t

\* the call of coroutine t returns: its locals are gone, the loop is free
Return(t, st, msg) ==
    /\ task' = [task EXCEPT ![t] = IdleTask]
    /\ returned' = Result(st, msg)
    /\ running' = "none"

\* coroutine t goes on to the store call at pc, with the locals tk
Continue(t, tk, pc) ==
    /\ task' = [task EXCEPT ![t] = [tk EXCEPT !.pc = pc]]
    /\ running' = AfterStoreCall(t)
    /\ UNCHANGED returned

\* the coroutine may take its next step after a store call
HoldsLoop(t) == running = t \/ (running = "none" /\ task[t].pc \in StorePcs)

\* lines 405-418: the message of the argument check that fails, "" when none
ArgsError(user_id, action, ticker, quantity) ==
    IF ~(TruthyStr(user_id) /\ TruthyStr(action) /\ TruthyStr(ticker) /\ TruthyQty(quantity))
      THEN "Missing required trade parameters"
    ELSE IF quantity.tag = "str" /\ ~IntParses(quantity.s)
      THEN "Invalid quantity"
    ELSE IF Abs(IF quantity.tag = "str" THEN IntOfStr(quantity.s) ELSE quantity.i) <= 0
      THEN "Quantity must be greater than 0"
    ELSE ""

\* lines 409-416: the quantity the call goes on with
NormalQuantitySigned(quantity) ==
    IF quantity.tag = "str" THEN IntOfStr(quantity.s) ELSE quantity.i
NormalQuantity(quantity) ==
    Abs(IF quantity.tag = "str" THEN IntOfStr(quantity.s) ELSE quantity.i)

\* execute_paper_trade, lines 405-421: argument checks, then the price lookup
\* is awaited
Call(t, user_id, action, ticker, quantity) ==
    /\ running = "none"
    /\ task[t].pc = "idle"
    /\ calls < MaxCalls
    /\ calls' = calls + 1
    /\ LET err == ArgsError(user_id, action, ticker, quantity) IN
       IF err # ""
         THEN /\ returned' = Result("error", err)
              /\ UNCHANGED task
         ELSE /\ task' = [task EXCEPT ![t] =
                           [IdleTask EXCEPT !.pc = "await_price", !.user_id = user_id,
                                            !.action = action, !.ticker = ticker,
                                            !.rawq = quantity,
                                            !.quantity = NormalQuantity(quantity)]]
              /\ UNCHANGED returned
    /\ UNCHANGED <<users, portfolios, trades, nextId, running, faults>>

\* lines 421-425: the awaited get_stock_price returns; None ends the call
PriceReturn(t, av, hasKey, yahoo) ==
    /\ running = "none"
    /\ task[t].pc = "await_price"
    /\ LET price == get_stock_price(task[t].ticker, av, hasKey, yahoo) IN
       IF PriceMissing(price)
         THEN /\ task' = [task EXCEPT ![t] = IdleTask]
              /\ returned' = Result("error", "Could not get price")
              /\ UNCHANGED running
         ELSE /\ task' = [task EXCEPT ![t].pc = "select_portfolio", ![t].price = price,
                                      ![t].pre = Store]
              /\ running' = t
              /\ UNCHANGED returned
    /\ UNCHANGED <<users, portfolios, trades, nextId, calls, faults>>

\* lines 532-534: what the caller gets when an exception e is raised inside the
\* try: the except clause makes it an error result, str(e) being its message
ExceptReraises(e) == [status |-> "raised", message |-> e]
ExceptHandler(e) == Result("error", e)

\* lines 532-534: a store call raises, the handler returns the error
StoreRaises(t) ==
    /\ HoldsLoop(t)
    /\ task[t].pc \in StorePcs
    /\ faults < MaxFaults
    /\ faults' = faults + 1
    /\ task' = [task EXCEPT ![t] = IdleTask]
    /\ returned' = ExceptHandler("exception")
    /\ running' = "none"
    /\ UNCHANGED <<users, portfolios, trades, nextId, calls>>

\* the loops of lines 450-453 and 481-485: the first row of the ticker, in the
\* order the store returned the rows
Matching(rows, ticker) == {r \in rows : r.ticker = ticker}

\* line 490
InsufficientSharesNever(held, quantity) == FALSE
InsufficientShares(held, quantity) == held < quantity

\* lines 427-433 and 476-491: read the user's positions, compute the trade
\* value, branch on the action; a sell is checked against the position read
SelectPortfolio(t) ==
    /\ HoldsLoop(t)
    /\ task[t].pc = "select_portfolio"
    /\ LET tk == task[t]
           user_portfolio == {r \in portfolios : r.user_id = tk.user_id}
           trade_value == tk.price * tk.quantity
           found == Matching(user_portfolio, tk.ticker)
       IN
       \E pos \in (IF found = {} THEN {NoPos} ELSE found) :
          LET seen == [tk EXCEPT !.trade_value = trade_value, !.position = pos] IN
          IF Lower(tk.action) = "buy"
            THEN Continue(t, seen, "select_cash")
          ELSE IF Lower(tk.action) = "sell"
            THEN IF pos = NoPos
                   THEN Return(t, "error", "You don't own any shares")
                 ELSE IF InsufficientShares(pos.quantity, tk.quantity)
                   THEN Return(t, "error", "You only have fewer shares")
                 ELSE Continue(t, seen, "select_cash")
          ELSE Continue(t, seen, "insert_trade")
    /\ UNCHANGED <<users, portfolios, trades, nextId, calls, faults>>

\* line 442
InsufficientFundsNever(cash_balance, trade_value) == FALSE
InsufficientFunds(cash_balance, trade_value) == cash_balance < trade_value

\* lines 435-443 (buy) and 494-495 (sell): read the cash balance
SelectCash(t) ==
    /\ HoldsLoop(t)
    /\ task[t].pc = "select_cash"
    /\ LET tk == task[t] IN
       IF tk.user_id \notin DOMAIN users
         THEN \* buy: "User not found"; sell: user_cash.data[0] raises IndexError
              Return(t, "error",
                     IF Lower(tk.action) = "buy" THEN "User not found" ELSE "exception")
       ELSE IF Lower(tk.action) = "buy" /\ InsufficientFunds(users[tk.user_id], tk.trade_value)
         THEN Return(t, "error", "Insufficient funds for this trade")
       ELSE Continue(t, [tk EXCEPT !.cash_balance = users[tk.user_id]], "update_cash")
    /\ UNCHANGED <<users, portfolios, trades, nextId, calls, faults>>

\* lines 446 and 496: the new balance, from the balance read
NewBalanceSwapped(action, cash_balance, trade_value) ==
    IF action = "buy" THEN cash_balance + trade_value ELSE cash_balance - trade_value
NewBalance(action, cash_balance, trade_value) ==
    IF action = "buy" THEN cash_balance - trade_value ELSE cash_balance + trade_value

UpdateCash(t) ==
    /\ HoldsLoop(t)
    /\ task[t].pc = "update_cash"
    /\ LET tk == task[t] IN
       users' = [u \in DOMAIN users |->
                   IF u = tk.user_id
                     THEN NewBalance(Lower(tk.action), tk.cash_balance, tk.trade_value)
                     ELSE users[u]]
    /\ Continue(t, task[t], "write_position")
    /\ UNCHANGED <<portfolios, trades, nextId, calls, faults>>

\* line 458
NewAvgPriceUnweighted(old_quantity, old_avg, trade_value, price, new_quantity) ==
    RatDivInt(RatAddInt(old_avg, price), 2)
NewAvgPrice(old_quantity, old_avg, trade_value, price, new_quantity) ==
    RatDivInt(RatAddInt(RatMulInt(old_avg, old_quantity), trade_value), new_quantity)

\* update(...).eq('id', id): the rows with that id get the new columns
UpdateEveryRow(rows, id, quantity, avg_price) ==
    {[r EXCEPT !.quantity = quantity, !.avg_price = avg_price] : r \in rows}
UpdateById(rows, id, quantity, avg_price) ==
    {IF r.id = id THEN [r EXCEPT !.quantity = quantity, !.avg_price = avg_price] ELSE r
       : r \in rows}

\* lines 455-474: a buy updates the position read or inserts a new one
BuyPositionInsertsAlways(rows, tk, id) ==
    rows \cup {[id |-> id, user_id |-> tk.user_id, ticker |-> tk.ticker,
                quantity |-> tk.quantity, avg_price |-> RatInt(tk.price)]}
BuyPosition(rows, tk, id) ==
    IF tk.position # NoPos
      THEN LET new_quantity == tk.position.quantity + tk.quantity IN
           UpdateById(rows, tk.position.id, new_quantity,
                      NewAvgPrice(tk.position.quantity, tk.position.avg_price,
                                  tk.trade_value, tk.price, new_quantity))
      ELSE rows \cup {[id |-> id, user_id |-> tk.user_id, ticker |-> tk.ticker,
                       quantity |-> tk.quantity, avg_price |-> RatInt(tk.price)]}

\* lines 498-509: a sell deletes the position read or lowers its quantity
SellPositionKeepZero(rows, tk) ==
    UpdateById(rows, tk.position.id, tk.position.quantity - tk.quantity,
               tk.position.avg_price)
SellPosition(rows, tk) ==
    LET new_quantity == tk.position.quantity - tk.quantity IN
    IF new_quantity = 0
      THEN {r \in rows : r.id # tk.position.id}
      ELSE UpdateById(rows, tk.position.id, new_quantity, tk.position.avg_price)

WritePosition(t) ==
    /\ HoldsLoop(t)
    /\ task[t].pc = "write_position"
    /\ LET tk == task[t] IN
       IF Lower(tk.action) = "buy"
         THEN /\ portfolios' = BuyPosition(portfolios, tk, nextId)
              /\ nextId' = IF tk.position = NoPos THEN nextId + 1 ELSE nextId
         ELSE /\ portfolios' = SellPosition(portfolios, tk)
              /\ UNCHANGED nextId
    /\ Continue(t, task[t], "insert_trade")
    /\ UNCHANGED <<users, trades, calls, faults>>

\* lines 512-520
TradeRecordUnitValue(tk) ==
    [user_id |-> tk.user_id, ticker |-> tk.ticker, action |-> Lower(tk.action),
     quantity |-> tk.quantity, price |-> tk.price, total_value |-> tk.price]
TradeRecord(tk) ==
    [user_id |-> tk.user_id, ticker |-> tk.ticker, action |-> Lower(tk.action),
     quantity |-> tk.quantity, price |-> tk.price, total_value |-> tk.trade_value]

\* line 522: table('trades').insert(trade) adds a row, it touches no other
InsertRowOverLast(rows, row) ==
    IF rows = <<>> THEN <<row>> ELSE [rows EXCEPT ![Len(rows)] = row]
InsertRow(rows, row) == Append(rows, row)

\* lines 511-530: record the trade and return success
InsertTrade(t) ==
    /\ HoldsLoop(t)
    /\ task[t].pc = "insert_trade"
    /\ trades' = InsertRow(trades, TradeRecord(task[t]))
    /\ Return(t, "success", "Successfully executed")
    /\ UNCHANGED <<users, portfolios, nextId, calls, faults>>

Next ==
    \/ \E t \in Tasks, u \in UserIds, a \in ActionInputs, k \in Tickers, q \in QuantityInputs :
          Call(t, u, a, k, q) /\ UNCHANGED <<gemVars, speechVars, apiVars>>
    \/ \E t \in Tasks, hasKey \in BOOLEAN :
          \E av \in AVResponses(task[t].ticker), yahoo \in YahooResults(task[t].ticker) :
             PriceReturn(t, av, hasKey, yahoo) /\ UNCHANGED <<gemVars, speechVars, apiVars>>
    \/ \E t \in Tasks : StoreRaises(t) /\ UNCHANGED <<gemVars, speechVars, apiVars>>
    \/ \E t \in Tasks : SelectPortfolio(t) /\ UNCHANGED <<gemVars, speechVars, apiVars>>
    \/ \E t \in Tasks : SelectCash(t) /\ UNCHANGED <<gemVars, speechVars, apiVars>>
    \/ \E t \in Tasks : UpdateCash(t) /\ UNCHANGED <<gemVars, speechVars, apiVars>>
    \/ \E t \in Tasks : WritePosition(t) /\ UNCHANGED <<gemVars, speechVars, apiVars>>
    \/ \E t \in Tasks : InsertTrade(t) /\ UNCHANGED <<gemVars, speechVars, apiVars>>

Spec == Init /\ [][Next]_vars

\* ======================================================================
\* GeminiService: one method call on drawn inputs
\* ======================================================================

\* what a caller says, as Twilio transcribes it
\* "buy 10 shares of AAPL"
U_BUY ==
    <<"b","u","y"," ","1","0"," ","s","h","a","r","e","s"," ","o","f"," ","A","A",
      "P","L">>
\* "what do you think about the market"
U_MARKET ==
    <<"w","h","a","t"," ","d","o"," ","y","o","u"," ","t","h","i","n","k"," ",
      "a","b","o","u","t"," ","t","h","e"," ","m","a","r","k","e","t">>
\* "yes let's do it"
U_YES ==
    <<"y","e","s"," ","l","e","t","'","s"," ","d","o"," ","i","t">>
\* "buy 2 aapl at that price"
U_PRICE_BUY ==
    <<"b","u","y"," ","2"," ","a","a","p","l"," ","a","t"," ","t","h","a",
      "t"," ","p","r","i","c","e">>
\* "what's AAPL trading at"
U_QUOTE ==
    <<"w","h","a","t","'","s"," ","A","A","P","L"," ","t","r","a","d","i","n",
      "g"," ","a","t">>
\* "sell AAPL"
U_SELL ==
    <<"s","e","l","l"," ","A","A","P","L">>
\* "10 shares of AAPL"
U_SHARES ==
    <<"1","0"," ","s","h","a","r","e","s"," ","o","f"," ","A","A","P","L">>
\* "I think I want to buy 10 shares of AAPL"
U_THINK_BUY ==
    <<"I"," ","t","h","i","n","k"," ","I"," ","w","a","n","t"," ","t","o",
      " ","b","u","y"," ","1","0"," ","s","h","a","r","e","s"," ","o","f"," ","A","A","P",
      "L">>
Utterances == {U_BUY, U_MARKET, U_YES, U_PRICE_BUY, U_QUOTE, U_SELL, U_SHARES, U_THINK_BUY}

\* what the model may answer to a prompt that asks for a JSON object
JsonReplies ==
    {LMRaise, LMText(<<"s","u","r","e">>), LMBadJson,
     LMJson([NoObj EXCEPT !.is_conversation = TRUE, !.query = <<"h","i">>]),
     LMJson([NoObj EXCEPT !.action = <<"B","U","Y">>, !.ticker = <<"a","a","p","l">>,
                          !.quantity = 1]),
     LMJson([NoObj EXCEPT !.action = <<"b","u","y">>, !.ticker = <<"A","A","P","L">>]),
     LMJson([NoObj EXCEPT !.action = NonStr, !.ticker = <<"A","A","P","L">>, !.quantity = 1]),
     LMJson([NoObj EXCEPT !.action = <<"s","e","l","l">>, !.ticker = <<"A","A","P","L">>,
                          !.quantity = BadQty]),
     LMJson([NoObj EXCEPT !.ticker = <<"a","a","p","l">>, !.action = <<"S","E","L","L">>,
                          !.quantity = 1, !.rationale = <<"h","o","t">>])}
\* what it may answer to a prompt that asks for one word
WordReplies ==
    {LMRaise, LMText(<<"T","R","A","D","I","N","G">>),
     LMText(<<"C","o","n","v","e","r","s","a","t","i","o","n">>),
     LMText(<<"N","O","N","E">>), LMText(<<" ","a","a","p","l"," ">>)}

\* the replies that are no JSON object of the expected shape: the call raised,
\* the text has no JSON in it, the JSON is broken, a field is missing or has
\* the wrong type
Garbage(reply) ==
    \/ reply.kind # "json"
    \/ /\ ~reply.obj.is_conversation
       /\ \/ ~TruthyField(reply.obj.action) \/ ~TruthyField(reply.obj.ticker)
          \/ ~TruthyNum(reply.obj.quantity)
          \/ ~IsStr(reply.obj.action) \/ ~IsStr(reply.obj.ticker)
          \/ reply.obj.quantity = BadQty

GemInit ==
    /\ LedgerInit /\ SpeechIdle /\ ApiIdle
    /\ model \in Models
    /\ gem \in {[NoGem EXCEPT !.transcription = u, !.reply = r, !.reply2 = r2] :
                  u \in Utterances, r \in JsonReplies \cup WordReplies, r2 \in JsonReplies}

GemCall == gem.fn = "none" /\ UNCHANGED <<ledgerVars, speechVars, model, apiVars>>

BasicIntentParsing ==
    /\ GemCall
    /\ gem' = [gem EXCEPT !.fn = "_basic_intent_parsing",
                          !.intent = basic_intent_parsing(gem.transcription)]
GenerateTradingOrder ==
    /\ GemCall
    /\ gem' = [gem EXCEPT !.fn = "generate_trading_order",
                          !.intent = generate_trading_order(gem.transcription, model, gem.reply)]
ParseTradingIntent ==
    /\ GemCall
    /\ gem' = [gem EXCEPT !.fn = "parse_trading_intent",
                          !.intent = parse_trading_intent(gem.transcription, model,
                                                          gem.reply, gem.reply2)]
CheckForPriceQuery ==
    /\ GemCall
    /\ gem' = [gem EXCEPT !.fn = "_check_for_price_query",
                          !.price_query = check_for_price_query(gem.transcription, model,
                                                                gem.reply)]
GenerateStockRecommendation ==
    /\ GemCall
    /\ gem' = [gem EXCEPT !.fn = "generate_stock_recommendation",
                          !.recommendation = generate_stock_recommendation(model, gem.reply)]

GemNext ==
    \/ BasicIntentParsing
    \/ GenerateTradingOrder
    \/ ParseTradingIntent
    \/ CheckForPriceQuery
    \/ GenerateStockRecommendation

SpecGemini == GemInit /\ [][GemNext]_vars

\* ======================================================================
\* process_speech: one turn of a call (api/endpoints/calls.py)
\* ======================================================================

\* ------------------------------------------------------------ input sets
\* the form fields From and To; NoPhone is a field that is not there
NoPhone == <<>>
\* "+15550001"
PHONE_U1 ==
    <<"+","1","5","5","5","0","0","0","1">>
\* "+15550002"
PHONE_U2 ==
    <<"+","1","5","5","5","0","0","0","2">>
\* "+15559999"
PHONE_UNKNOWN ==
    <<"+","1","5","5","5","9","9","9","9">>
\* "+18885550000"
PHONE_TWILIO ==
    <<"+","1","8","8","8","5","5","5","0","0","0","0">>
\* column phone_number of table users: u2 registered without the leading +
phone_number == [u \in Users |-> IF u = "u1" THEN PHONE_U1 ELSE Tail(PHONE_U2)]
FromNumbers == {PHONE_U1, PHONE_U2, PHONE_UNKNOWN, PHONE_TWILIO, NoPhone}
ToNumbers == {PHONE_U2, NoPhone}

\* the field SpeechResult: what the caller said, empty when nothing was heard
SpeechResults == Utterances \cup {<<>>}

\* what the broker said last, earlier in the call
\* "Wolf here, recommending 10 shares of AAPL today."
PITCH_RECOMMEND ==
    <<"W","o","l","f"," ","h","e","r","e",","," ","r","e","c","o","m","m","e","n","d","i",
      "n","g"," ","1","0"," ","s","h","a","r","e","s"," ","o","f"," ","A","A","P","L"," ",
      "t","o","d","a","y",".">>
\* "I'm recommending 10 shares of AAPL."
PITCH_I ==
    <<"I","'","m"," ","r","e","c","o","m","m","e","n","d","i","n","g"," ","1","0"," ","s",
      "h","a","r","e","s"," ","o","f"," ","A","A","P","L",".">>
\* "Time to dump 2 shares of AAPL."
PITCH_SELL ==
    <<"T","i","m","e"," ","t","o"," ","d","u","m","p"," ","2"," ","s","h","a","r","e","s",
      " ","o","f"," ","A","A","P","L",".">>
\* "AAPL is a steal, grab it."
PITCH_NO_QUANTITY ==
    <<"A","A","P","L"," ","i","s"," ","a"," ","s","t","e","a","l",","," ","g","r","a","b",
      " ","i","t",".">>
\* "How are you doing today?"
PITCH_NO_TICKER ==
    <<"H","o","w"," ","a","r","e"," ","y","o","u"," ","d","o","i","n","g"," ","t","o","d",
      "a","y","?">>
Pitches == {PITCH_RECOMMEND, PITCH_I, PITCH_SELL, PITCH_NO_QUANTITY, PITCH_NO_TICKER}

\* what the model may answer to a prompt that asks for a spoken reply
\* "Done deal, champ!"
DONE_DEAL ==
    <<"D","o","n","e"," ","d","e","a","l",","," ","c","h","a","m","p","!">>
TextReplies == {LMRaise, LMText(DONE_DEAL), LMText(<<>>)}
\* what it may answer to the prompt of generate_trading_order
OrderReplies ==
    {LMRaise,
     LMJson([NoObj EXCEPT !.is_conversation = TRUE, !.query = <<"h","i">>]),
     LMJson([NoObj EXCEPT !.is_conversation = TRUE]),
     LMJson([NoObj EXCEPT !.action = <<"B","U","Y">>, !.ticker = <<"a","a","p","l">>,
                          !.quantity = 1]),
     LMJson([NoObj EXCEPT !.action = <<"b","u","y">>, !.ticker = <<"A","A","P","L">>])}
\* what it may answer to the prompt of _check_for_price_query
TickerReplies == {LMRaise, LMText(<<"N","O","N","E">>), LMText(<<" ","a","a","p","l"," ">>)}

\* ------------------------------------------------------ pattern matching
\* any(phrase in transcription.lower() for phrase in positive_responses)
is_agreement(transcription) == ContainsAny(StrLower(transcription), positive_responses)

\* re.search(r'(\d+)\s+shares', text): the number of the first run of digits
\* that white space and the word shares follow, None when there is no match
SharesMatches(text) ==
    {i \in RunStarts(text, CharsOf(DigitChars)) :
        LET e == RunEnd(text, CharsOf(DigitChars), i) IN
        /\ e < Len(text)
        /\ IsSpace(text[e + 1])
        /\ StartsAt(text, RunEnd(text, {" "}, e + 1) + 1, SHARES)}
SharesQuantity(text) ==
    LET matches == SharesMatches(text) IN
    IF matches = {} THEN None
    ELSE LET i == CHOOSE x \in matches : \A y \in matches : x <= y
         IN IntOfDigits(SubSeq(text, i, RunEnd(text, CharsOf(DigitChars), i)))

\* lines 502-528: what the agreement branch reads in the broker's message
PitchAction(broker_message) ==
    IF ContainsAny(StrLower(broker_message), pitch_sell_phrases)
      THEN <<"s","e","l","l">> ELSE <<"b","u","y">>
PitchQuantity(broker_message) ==
    LET n == SharesQuantity(broker_message) IN IF n = None THEN 10 ELSE n
potential_tickers(broker_message) == UpperWords(broker_message)

\* ------------------------------------------------------------ transcript
LogEntry(direction, content) == [direction |-> direction, content |-> content]
\* lines 494-499: the last outbound entry of the call, as a list of 0 or 1 rows
recent_logs(logs) ==
    LET out == SelectSeq(logs, LAMBDA l : l.direction = "outbound") IN
    IF out = <<>> THEN <<>> ELSE <<out[Len(out)]>>

\* the name the ledger has for a text of a turn; None is the empty name
Name(text) ==
    IF text \in {NoneStr, NoKey} THEN ""
    ELSE CHOOSE a \in DOMAIN Spelling : Spelling[a] = text

\* ----------------------------------------------------------- a turn

\* the response text of the except clause, lines 594-609, and of Gather
FallbackSilent == <<>>
Fallback == <<PROBLEM, WHAT_TO_DO>>

\* TwilioService.generate_response_twiml, lines 179-219 with gather_again: what
\* the TwiML says
generate_response_twiml(broker_response) == <<broker_response, prompt_text>>

\* the turn returns: its locals are gone
TurnReturns(said) ==
    /\ spoken' = said
    /\ turn' = [IdleTurn EXCEPT !.n = turn.n]

\* an exception reaches the except clause of line 594
TurnFails == TurnReturns(Fallback)

\* a call of the store raises
Raise == faults < MaxFaults /\ faults' = faults + 1

\* lines 338-360: the user that has the phone number, "" when there is none
UserOfPhone(phone) ==
    LET exact == {u \in Users : phone_number[u] = phone}
        bare == IF phone # <<>> /\ phone[1] = "+"
                  THEN {u \in Users : phone_number[u] = Tail(phone)} ELSE {}
        found == IF exact # {} THEN exact ELSE bare
    IN IF phone = NoPhone \/ found = {} THEN "" ELSE CHOOSE u \in found : TRUE

\* lines 316-379: the form is read, the caller is looked up, the utterance is
\* logged; raises says that a call of the store raised
SpeechReceive(from, to, transcription, raises) ==
    /\ turn.pc = "idle"
    /\ turn.n < MaxTurns
    /\ running = "none"
    /\ \A t \in Tasks : task[t].pc = "idle"
    /\ LET twilio == from # NoPhone /\ StartsAt(from, 1, <<"+","1","8","8","8">>)
           phone == IF twilio THEN to ELSE from
           user_id == UserOfPhone(phone)
           started == [turn EXCEPT !.n = turn.n + 1]
       IN
       /\ raises => phone # NoPhone
       /\ IF twilio /\ to = NoPhone
            THEN /\ spoken' = <<NO_TO_NUMBER>>
                 /\ turn' = [IdleTurn EXCEPT !.n = turn.n + 1]
                 /\ UNCHANGED <<call_logs, faults>>
          ELSE IF raises
            THEN /\ Raise
                 /\ spoken' = Fallback
                 /\ turn' = [IdleTurn EXCEPT !.n = turn.n + 1]
                 /\ UNCHANGED call_logs
          ELSE IF user_id = ""
            THEN /\ spoken' = <<NO_ACCOUNT>>
                 /\ turn' = [IdleTurn EXCEPT !.n = turn.n + 1]
                 /\ UNCHANGED <<call_logs, faults>>
          ELSE IF transcription = <<>>
            THEN /\ spoken' = generate_response_twiml(REPEAT)
                 /\ turn' = [IdleTurn EXCEPT !.n = turn.n + 1]
                 /\ UNCHANGED <<call_logs, faults>>
          ELSE /\ call_logs' = Append(call_logs, LogEntry("inbound", transcription))
               /\ turn' = [started EXCEPT !.pc = "price_query", !.user_id = user_id,
                                          !.transcription = transcription]
               /\ spoken' = NoSpeech
               /\ UNCHANGED faults
    /\ UNCHANGED <<users, portfolios, trades, nextId, task, running, returned, calls,
                   gemVars>>

\* lines 382-461: _check_for_price_query returns, the transcript of the call
\* is read (a failure of the read of the earlier calls is passed over)
SpeechPriceQuery(reply, raises) ==
    /\ turn.pc = "price_query"
    /\ LET price_query == check_for_price_query(turn.transcription, model, reply) IN
       IF raises
         THEN Raise /\ TurnFails
         ELSE /\ turn' = [turn EXCEPT !.pc = "summary",
                                      !.is_price_check = price_query[1],
                                      !.ticker = price_query[2],
                                      !.user_data = UserData({}, call_logs)]
              /\ UNCHANGED <<spoken, faults>>
    /\ UNCHANGED <<users, portfolios, trades, nextId, task, running, returned, calls,
                   gemVars, call_logs>>

\* TradingService.get_user_summary, lines 632-750: None when the user row
\* cannot be read
get_user_summary(user_id, read, call_transcript) ==
    IF read THEN UserData({r \in portfolios : r.user_id = user_id}, call_transcript)
    ELSE NoUserData

\* lines 464-480: get_user_summary returns; the branch of line 470
PriceCheck(is_price_check, ticker) == is_price_check /\ TruthyField(ticker)

SpeechSummary(read) ==
    /\ turn.pc = "summary"
    /\ LET user_data == get_user_summary(turn.user_id, read, turn.user_data.call_transcript) IN
       IF user_data.none
         THEN \* line 466: None has no item assignment
              Raise /\ TurnFails
         ELSE /\ turn' = [turn EXCEPT
                            !.pc = IF PriceCheck(turn.is_price_check, turn.ticker)
                                     THEN "price_response" ELSE "order",
                            !.user_data = user_data]
              /\ UNCHANGED <<spoken, faults>>
    /\ UNCHANGED <<users, portfolios, trades, nextId, task, running, returned, calls,
                   gemVars, call_logs>>

\* GeminiService._generate_price_check_response, lines 486-548
generate_price_check_response(ticker, user_data, price, even) ==
    IF price = None THEN NoPriceResponse(ticker)
    ELSE IF user_data.none THEN PriceCheckFailed(ticker)
    ELSE LET owned == {r \in user_data.positions : Spelling[r.ticker] = ticker}
             discussed ==
                 \E i \in DOMAIN user_data.call_transcript :
                    LET entry == user_data.call_transcript[i] IN
                    /\ Contains(entry.content, ticker)
                    /\ entry.direction = "outbound"
                    /\ entry.content # <<"W","h","a","t","'","s"," ">> \o ticker
                                        \o <<"'","s"," ","p","r","i","c","e","?">>
             context_info == ContextInfo(ticker, discussed)
         IN
         IF owned = {} THEN NotOwned(ticker, price, context_info, even)
         ELSE LET position == CHOOSE r \in owned : TRUE IN
              IF price * position.avg_price.d > position.avg_price.n
                THEN OwnedUp(ticker, price, context_info, position)
                ELSE OwnedDown(ticker, price, context_info, position)

\* the Quote Provider's answer for the ticker of a text, None for a ticker that
\* no market has
PriceOf(ticker, av, hasKey, yahoo) ==
    IF \E a \in DOMAIN Spelling : Spelling[a] = ticker
      THEN get_stock_price(Name(ticker), av, hasKey, yahoo)
      ELSE None

\* lines 470-475 and gemini_service.py 356: the awaited price check response
\* returns
SpeechPriceResponse(av, hasKey, yahoo, even) ==
    /\ turn.pc = "price_response"
    /\ turn' = [turn EXCEPT
                  !.pc = "respond",
                  !.broker_response =
                      generate_price_check_response(
                          turn.ticker, turn.user_data,
                          PriceOf(turn.ticker, av, hasKey, yahoo), even)]
    /\ UNCHANGED <<ledgerVars, gemVars, call_logs, spoken>>

\* line 571
MissingFields(trading_intent) ==
    ~TruthyField(trading_intent.ticker) \/ ~TruthyNum(trading_intent.quantity)

\* lines 479-580: generate_trading_order returns; the turn goes on to a
\* conversation, to a clarification, or to execute_paper_trade
SpeechOrder(reply, raises) ==
    /\ turn.pc = "order"
    /\ LET trading_intent == generate_trading_order(turn.transcription, model, reply)
           logs == recent_logs(call_logs)
           broker_message == logs[1].content
           tickers == potential_tickers(broker_message)
           recommendation_intent ==
               [is_conversation |-> FALSE, query |-> NoKey,
                action |-> PitchAction(broker_message), ticker |-> tickers[1],
                quantity |-> PitchQuantity(broker_message)]
           Converse == /\ turn' = [turn EXCEPT !.pc = "conversation",
                                               !.trading_intent = trading_intent]
                       /\ UNCHANGED <<ledgerVars, spoken>>
           Execute(intent) ==
               /\ Call("t1", turn.user_id, Name(intent.action), Name(intent.ticker),
                       IntQty(intent.quantity))
               /\ turn' = [turn EXCEPT !.pc = "trade", !.trading_intent = intent]
               /\ UNCHANGED spoken
       IN
       IF trading_intent.is_conversation
         THEN IF is_agreement(turn.transcription)
                THEN IF raises
                       THEN /\ Raise /\ TurnFails
                            /\ UNCHANGED <<users, portfolios, trades, nextId, task, running,
                                           returned, calls>>
                     ELSE IF logs # <<>> /\ tickers # <<>>
                       THEN Execute(recommendation_intent)
                     ELSE Converse
                ELSE ~raises /\ Converse
         ELSE /\ ~raises
              /\ IF MissingFields(trading_intent)
                   THEN /\ turn' = [turn EXCEPT !.pc = "respond",
                                                !.trading_intent = trading_intent,
                                                !.broker_response = MISSING_INFORMATION]
                        /\ UNCHANGED <<ledgerVars, spoken>>
                   ELSE Execute(trading_intent)
    /\ UNCHANGED <<gemVars, call_logs>>

\* the query of a conversation, trading_intent.get('query', transcription)
QueryOf(trading_intent, transcription) ==
    IF trading_intent.query = NoKey THEN transcription ELSE trading_intent.query

\* lines 547-565 and gemini_service.py 352-356: the user summary is read
\* again, generate_conversation_response looks for a price query first
SpeechConversation(reply, read) ==
    /\ turn.pc = "conversation"
    /\ IF read THEN UNCHANGED faults ELSE Raise
    /\ LET query == QueryOf(turn.trading_intent, turn.transcription)
           price_query == check_for_price_query(query, model, reply)
           user_data == get_user_summary(turn.user_id, read, <<>>)
       IN
       turn' = [turn EXCEPT
                  !.pc = IF PriceCheck(price_query[1], price_query[2])
                           THEN "price_response" ELSE "conversation_response",
                  !.ticker = price_query[2],
                  !.user_data = user_data]
    /\ UNCHANGED <<users, portfolios, trades, nextId, task, running, returned, calls,
                   gemVars, call_logs, spoken>>

\* GeminiService.generate_conversation_response, lines 358-418
generate_conversation_response(user_data, reply) ==
    IF model = "absent" THEN VOLATILE
    ELSE IF user_data.none \/ reply.kind = "raise" THEN ALWAYS_CHANGING
    ELSE reply.text

SpeechConversationResponse(reply) ==
    /\ turn.pc = "conversation_response"
    /\ turn' = [turn EXCEPT
                  !.pc = "respond",
                  !.broker_response = generate_conversation_response(turn.user_data, reply)]
    /\ UNCHANGED <<ledgerVars, gemVars, call_logs, spoken>>

\* GeminiService.generate_broker_response, lines 550-606, for the result that
\* execute_paper_trade returned
generate_broker_response(user_intent, trade_result, price, reply) ==
    IF model = "absent" \/ reply.kind = "raise"
      THEN template_broker_response(user_intent, trade_result.status,
                                    Spelling[trade_result.message], price)
      ELSE reply.text

\* lines 533-544 and 576-580: execute_paper_trade has returned, the broker's
\* response to its result is generated
SpeechBrokerResponse(reply) ==
    /\ turn.pc = "trade"
    /\ running = "none"
    /\ task["t1"].pc = "idle"
    /\ turn' = [turn EXCEPT
                  !.pc = "respond",
                  !.broker_response =
                      generate_broker_response(
                          turn.trading_intent, returned,
                          IF returned.status = "success" THEN trades[Len(trades)].price ELSE 0,
                          reply)]
    /\ UNCHANGED <<ledgerVars, gemVars, call_logs, spoken>>

\* lines 583-593: the TwiML is made, the response is logged, the turn returns
SpeechRespond(raises) ==
    /\ turn.pc = "respond"
    /\ IF raises
         THEN Raise /\ TurnFails /\ UNCHANGED call_logs
         ELSE /\ call_logs' = Append(call_logs, LogEntry("outbound", turn.broker_response))
              /\ TurnReturns(generate_response_twiml(turn.broker_response))
              /\ UNCHANGED faults
    /\ UNCHANGED <<users, portfolios, trades, nextId, task, running, returned, calls,
                   gemVars>>

\* the turn awaits the execute_paper_trade call it made
Awaited(t) == turn.pc = "trade" /\ t = "t1"

\* the call before the turn: the broker may have spoken
Transcripts == {<<>>} \cup {<<LogEntry("outbound", p)>> : p \in Pitches}

SpeechInit ==
    /\ LedgerInit
    /\ model \in Models
    /\ gem = NoGem
    /\ call_logs \in Transcripts
    /\ turn = IdleTurn
    /\ spoken = NoSpeech
    /\ ApiIdle

SpeechNext ==
    \/ \E from \in FromNumbers, to \in ToNumbers, transcription \in SpeechResults,
          raises \in BOOLEAN :
          SpeechReceive(from, to, transcription, raises) /\ UNCHANGED apiVars
    \/ \E reply \in TickerReplies, raises \in BOOLEAN : SpeechPriceQuery(reply, raises) /\ UNCHANGED apiVars
    \/ \E read \in BOOLEAN : SpeechSummary(read) /\ UNCHANGED apiVars
    \/ \E hasKey \in BOOLEAN, even \in BOOLEAN :
          \E av \in AVResponses(Name(turn.ticker)), yahoo \in YahooResults(Name(turn.ticker)) :
             SpeechPriceResponse(av, hasKey, yahoo, even) /\ UNCHANGED apiVars
    \/ \E reply \in OrderReplies, raises \in BOOLEAN : SpeechOrder(reply, raises) /\ UNCHANGED apiVars
    \/ \E reply \in TickerReplies, read \in BOOLEAN : SpeechConversation(reply, read) /\ UNCHANGED apiVars
    \/ \E reply \in TextReplies : SpeechConversationResponse(reply) /\ UNCHANGED apiVars
    \/ \E t \in Tasks, hasKey \in BOOLEAN :
          \E av \in AVResponses(task[t].ticker), yahoo \in YahooResults(task[t].ticker) :
             Awaited(t) /\ PriceReturn(t, av, hasKey, yahoo) /\ UNCHANGED <<gemVars, speechVars, apiVars>>
    \/ \E t \in Tasks : Awaited(t) /\ StoreRaises(t) /\ UNCHANGED <<gemVars, speechVars, apiVars>>
    \/ \E t \in Tasks : Awaited(t) /\ SelectPortfolio(t) /\ UNCHANGED <<gemVars, speechVars, apiVars>>
    \/ \E t \in Tasks : Awaited(t) /\ SelectCash(t) /\ UNCHANGED <<gemVars, speechVars, apiVars>>
    \/ \E t \in Tasks : Awaited(t) /\ UpdateCash(t) /\ UNCHANGED <<gemVars, speechVars, apiVars>>
    \/ \E t \in Tasks : Awaited(t) /\ WritePosition(t) /\ UNCHANGED <<gemVars, speechVars, apiVars>>
    \/ \E t \in Tasks : Awaited(t) /\ InsertTrade(t) /\ UNCHANGED <<gemVars, speechVars, apiVars>>
    \/ \E reply \in TextReplies : SpeechBrokerResponse(reply) /\ UNCHANGED apiVars
    \/ \E raises \in BOOLEAN : SpeechRespond(raises) /\ UNCHANGED apiVars

SpecSpeech == SpeechInit /\ [][SpeechNext]_vars

\* ======================================================================
\* get_user_portfolio: the positions of a user, priced concurrently
\* ======================================================================

RatAdd(a, b) == Rat(a.n * b.d + b.n * a.d, a.d * b.d)
\* round(x, 2) of an amount x that is r cents: the nearest whole number of cents
Round2(r) == (2 * r.n + r.d) \div (2 * r.d)

\* Stores the trades of the users leave: the initial one; u2 after buying 2 AAPL
\* at 150.00 and 1 at 188.38 and selling 1 at 150.00; u2, and then u1, holding
\* also 1 ZZZZ, bought at 20.00 when the market-data APIs still knew the ticker.
AAPL_U2 == [id |-> 2, user_id |-> "u2", ticker |-> "AAPL", quantity |-> 2,
            avg_price |-> Rat(48838, 3)]
ZZZZ_U2 == [id |-> 3, user_id |-> "u2", ticker |-> "ZZZZ", quantity |-> 1,
            avg_price |-> RatInt(2000)]
ZZZZ_U1 == [id |-> 4, user_id |-> "u1", ticker |-> "ZZZZ", quantity |-> 1,
            avg_price |-> RatInt(2000)]
PortfolioStores ==
    {[users |-> InitialBalances, portfolios |-> InitialPortfolio],
     [users |-> [InitialBalances EXCEPT !["u2"] = 966162],
      portfolios |-> InitialPortfolio \cup {AAPL_U2}],
     [users |-> [InitialBalances EXCEPT !["u2"] = 964162],
      portfolios |-> InitialPortfolio \cup {AAPL_U2, ZZZZ_U2}],
     [users |-> [InitialBalances EXCEPT !["u1"] = 28000, !["u2"] = 964162],
      portfolios |-> InitialPortfolio \cup {AAPL_U2, ZZZZ_U2, ZZZZ_U1}]}

\* .execute() of a select: the rows as a list, here in the order of their ids
RECURSIVE RowList(_)
RowList(rows) ==
    IF rows = {} THEN <<>>
    ELSE LET r == CHOOSE x \in rows : \A y \in rows : x.id <= y.id
         IN <<r>> \o RowList(rows \ {r})

\* A price lookup of the gather: waiting in _rate_limit_request, waiting for the
\* answer of the API, or finished with what asyncio.gather(return_exceptions=
\* True) puts in current_prices: a price, None or an exception
RateLimited == [kind |-> "rate_limit", price |-> 0]
Requested == [kind |-> "request", price |-> 0]
Priced(p) == [kind |-> IF p = None THEN "none" ELSE "price", price |-> IF p = None THEN 0 ELSE p]
Excepted == [kind |-> "exception", price |-> 0]
Finished(result) == result.kind \in {"price", "none", "exception"}

\* get_user_portfolio raises ValueError: lines 561, 577 and 625-630
PortfolioRaises ==
    lookup' = [NoLookup EXCEPT !.pc = "done", !.raised = TRUE]

\* lines 550-585: read the user and the positions, start one get_stock_price
\* per position and await them all
GetUserPortfolio(user_id, raises) ==
    /\ lookup.pc = "idle"
    /\ IF raises
         THEN Raise /\ PortfolioRaises
       ELSE IF user_id \notin DOMAIN users
         THEN PortfolioRaises /\ UNCHANGED faults
       ELSE LET portfolio_data == RowList({r \in portfolios : r.user_id = user_id}) IN
            /\ lookup' = [NoLookup EXCEPT
                            !.pc = "gather", !.user_id = user_id,
                            !.cash_balance = users[user_id],
                            !.portfolio_data = portfolio_data,
                            !.current_prices = [i \in DOMAIN portfolio_data |-> RateLimited]]
            /\ UNCHANGED faults
    /\ UNCHANGED <<users, portfolios, trades, nextId, task, running, returned, calls>>

\* lines 50-64: the lookup of position i is through the rate limiter and sends
\* its request; anything raised here leaves get_stock_price
RateLimitReturns(i, raises) ==
    /\ lookup.pc = "gather"
    /\ i \in DOMAIN lookup.current_prices
    /\ lookup.current_prices[i] = RateLimited
    /\ IF raises
         THEN Raise /\ lookup' = [lookup EXCEPT !.current_prices[i] = Excepted]
         ELSE /\ lookup' = [lookup EXCEPT !.current_prices[i] = Requested]
              /\ UNCHANGED faults
    /\ UNCHANGED <<users, portfolios, trades, nextId, task, running, returned, calls>>

\* lines 89-147: the lookup of position i gets its answer
LookupReturns(i, av, hasKey, yahoo) ==
    /\ lookup.pc = "gather"
    /\ i \in DOMAIN lookup.current_prices
    /\ lookup.current_prices[i] = Requested
    /\ lookup' = [lookup EXCEPT !.current_prices[i] =
                     Priced(get_stock_price(lookup.portfolio_data[i].ticker, av, hasKey, yahoo))]
    /\ UNCHANGED ledgerVars

\* lines 598-605: the price of a position, from the result of a lookup
CurrentPriceOfFirst(current_prices, i, avg_price) ==
    IF current_prices[1].kind = "price" THEN RatInt(current_prices[1].price) ELSE avg_price
CurrentPrice(current_prices, i, avg_price) ==
    IF current_prices[i].kind = "price" THEN RatInt(current_prices[i].price) ELSE avg_price

\* line 616
ProfitLossPercent(current_price, avg_price) ==
    IF avg_price.n > 0
      THEN Rat((current_price.n * avg_price.d - avg_price.n * current_price.d) * 100,
               current_price.d * avg_price.n)
      ELSE RatInt(0)

\* lines 590-617: the entry of position i in the result
PositionEntry(portfolio_data, current_prices, i) ==
    LET position == portfolio_data[i]
        current_price == CurrentPrice(current_prices, i, position.avg_price)
    IN [ticker |-> position.ticker, quantity |-> position.quantity,
        avg_price |-> position.avg_price, current_price |-> current_price,
        value |-> RatMulInt(current_price, position.quantity),
        profit_loss |-> ProfitLossPercent(current_price, position.avg_price)]

\* lines 588 and 608: cash_balance plus the values of the first n positions
RECURSIVE ValueThrough(_, _, _)
ValueThrough(cash_balance, positions, n) ==
    IF n = 0 THEN RatInt(cash_balance)
    ELSE RatAdd(ValueThrough(cash_balance, positions, n - 1), positions[n].value)

\* lines 585-624: every lookup has finished, the result is put together
PortfolioReturns ==
    /\ lookup.pc = "gather"
    /\ \A i \in DOMAIN lookup.current_prices : Finished(lookup.current_prices[i])
    /\ LET positions == [i \in DOMAIN lookup.portfolio_data |->
                           PositionEntry(lookup.portfolio_data, lookup.current_prices, i)]
       IN lookup' = [lookup EXCEPT
                       !.pc = "done", !.positions = positions,
                       !.portfolio_value =
                          Round2(ValueThrough(lookup.cash_balance, positions, Len(positions)))]
    /\ UNCHANGED ledgerVars

PortfolioInit ==
    /\ \E s \in PortfolioStores : users = s.users /\ portfolios = s.portfolios
    /\ trades = <<>>
    /\ nextId = 5
    /\ task = [t \in Tasks |-> IdleTask]
    /\ running = "none"
    /\ returned = NoResult
    /\ calls = 0
    /\ faults = 0
    /\ GemIdle /\ SpeechIdle /\ ApiIdle

PortfolioNext ==
    \/ \E user_id \in UserIds, raises \in BOOLEAN :
          GetUserPortfolio(user_id, raises) /\ UNCHANGED OtherThanPortfolio
    \/ \E i \in DOMAIN lookup.current_prices, raises \in BOOLEAN :
          RateLimitReturns(i, raises) /\ UNCHANGED OtherThanPortfolio
    \/ \E i \in DOMAIN lookup.current_prices, hasKey \in BOOLEAN :
          \E av \in AVResponses(lookup.portfolio_data[i].ticker),
             yahoo \in YahooResults(lookup.portfolio_data[i].ticker) :
             LookupReturns(i, av, hasKey, yahoo) /\ UNCHANGED OtherThanPortfolio
    \/ PortfolioReturns /\ UNCHANGED OtherThanPortfolio

SpecPortfolio == PortfolioInit /\ [][PortfolioNext]_vars

\* ======================================================================
\* POST /api/trades/execute: execute_trade
\* ======================================================================

\* the lists of WebSocket clients a request can find in ConnectionManager: a
\* client is "closed" when it went away and disconnect() has not removed it
ConnectionLists ==
    {<<>>, <<"open">>, <<"closed">>, <<"open", "closed">>, <<"open", "open">>}

\* FastAPI converts the query parameter quantity to an int
RequestQuantities == {q \in QuantityInputs : q.tag = "int"}

\* the response of the endpoint: the result dict, or an HTTPException
Responds(code) ==
    request' = [request EXCEPT !.pc = "done", !.status_code = code]

\* lines 44-52: the action is validated, then execute_paper_trade is awaited
ExecuteTrade(user_id, action, ticker, quantity) ==
    /\ request.pc = "idle"
    /\ IF Lower(action) \notin {"buy", "sell"}
         THEN /\ request' = [request EXCEPT !.pc = "done", !.status_code = 400,
                                            !.user_id = user_id, !.pre = Store]
              /\ UNCHANGED ledgerVars
         ELSE /\ Call("t1", user_id, action, ticker, quantity)
              /\ request' = [request EXCEPT !.pc = "trade", !.user_id = user_id,
                                            !.pre = Store]
    /\ UNCHANGED active_connections

\* the ledger steps of the call the request awaits
RequestAwaits(t) == request.pc = "trade" /\ t = "t1"

\* lines 52-58: execute_paper_trade has returned; an error result is answered
\* with status 400
TradeReturns ==
    /\ request.pc = "trade"
    /\ task["t1"].pc = "idle"
    /\ IF returned.status = "error"
         THEN Responds(400)
         ELSE request' = [request EXCEPT !.pc = "verify"]
    /\ UNCHANGED <<ledgerVars, active_connections>>

\* lines 60-73: the verification read; its failure is logged and passed over
VerifyTrade(raises) ==
    /\ request.pc = "verify"
    /\ IF raises THEN Raise ELSE UNCHANGED faults
    /\ request' = [request EXCEPT !.pc = "broadcast", !.connection = 1]
    /\ UNCHANGED <<users, portfolios, trades, nextId, task, running, returned, calls,
                   active_connections>>

\* main.py lines 40-42 and trades.py lines 86-88: what a raising send_json
\* makes of the request
SendFailure(r) == [r EXCEPT !.pc = "done", !.status_code = 500]

\* trades.py lines 75-81 and main.py lines 40-42: broadcast awaits send_json
\* for one connection after the other
BroadcastSend ==
    /\ request.pc = "broadcast"
    /\ request.connection <= Len(active_connections)
    /\ request' = IF active_connections[request.connection] = "closed"
                    THEN SendFailure(request)
                    ELSE [request EXCEPT !.connection = request.connection + 1]
    /\ UNCHANGED <<ledgerVars, active_connections>>

\* line 83: the result is returned
ReturnResult ==
    /\ request.pc = "broadcast"
    /\ request.connection > Len(active_connections)
    /\ Responds(200)
    /\ UNCHANGED <<ledgerVars, active_connections>>

TradesInit ==
    /\ LedgerInit /\ GemIdle /\ SpeechIdle
    /\ lookup = NoLookup
    /\ request = NoRequest
    /\ active_connections \in ConnectionLists
    /\ inbound = NoInbound /\ call_rows = <<>>
    /\ active_calls = NoCalls /\ handler = <<>> /\ frames = <<>>

TradesNext ==
    \/ \E user_id \in UserIds, action \in ActionInputs, ticker \in Tickers,
          quantity \in RequestQuantities :
          ExecuteTrade(user_id, action, ticker, quantity) /\ UNCHANGED OtherThanTrades
    \/ \E t \in Tasks, hasKey \in BOOLEAN :
          \E av \in AVResponses(task[t].ticker), yahoo \in YahooResults(task[t].ticker) :
             RequestAwaits(t) /\ PriceReturn(t, av, hasKey, yahoo)
                /\ UNCHANGED <<gemVars, speechVars, apiVars>>
    \/ \E t \in Tasks : RequestAwaits(t) /\ StoreRaises(t) /\ UNCHANGED <<gemVars, speechVars, apiVars>>
    \/ \E t \in Tasks : RequestAwaits(t) /\ SelectPortfolio(t) /\ UNCHANGED <<gemVars, speechVars, apiVars>>
    \/ \E t \in Tasks : RequestAwaits(t) /\ SelectCash(t) /\ UNCHANGED <<gemVars, speechVars, apiVars>>
    \/ \E t \in Tasks : RequestAwaits(t) /\ UpdateCash(t) /\ UNCHANGED <<gemVars, speechVars, apiVars>>
    \/ \E t \in Tasks : RequestAwaits(t) /\ WritePosition(t) /\ UNCHANGED <<gemVars, speechVars, apiVars>>
    \/ \E t \in Tasks : RequestAwaits(t) /\ InsertTrade(t) /\ UNCHANGED <<gemVars, speechVars, apiVars>>
    \/ TradeReturns /\ UNCHANGED OtherThanTrades
    \/ \E raises \in BOOLEAN : VerifyTrade(raises) /\ UNCHANGED OtherThanTrades
    \/ BroadcastSend /\ UNCHANGED OtherThanTrades
    \/ ReturnResult /\ UNCHANGED OtherThanTrades

SpecTrades == TradesInit /\ [][TradesNext]_vars

\* ======================================================================
\* handle_inbound_call: a user calls the broker's number
\* ======================================================================

\* "Sorry, we couldn't find your account. Please register on our website first."
INBOUND_NO_ACCOUNT ==
    <<"S","o","r","r","y",","," ","w","e"," ","c","o","u","l","d","n","'","t"," ","f","i",
      "n","d"," ","y","o","u","r"," ","a","c","c","o","u","n","t","."," ","P","l","e","a",
      "s","e"," ","r","e","g","i","s","t","e","r"," ","o","n"," ","o","u","r"," ","w","e",
      "b","s","i","t","e"," ","f","i","r","s","t",".">>
\* "Sorry, there was a problem connecting to your broker. Please try again later."
INBOUND_PROBLEM ==
    <<"S","o","r","r","y",","," ","t","h","e","r","e"," ","w","a","s"," ","a"," ","p","r",
      "o","b","l","e","m"," ","c","o","n","n","e","c","t","i","n","g"," ","t","o"," ","y",
      "o","u","r"," ","b","r","o","k","e","r","."," ","P","l","e","a","s","e"," ","t","r",
      "y"," ","a","g","a","i","n"," ","l","a","t","e","r",".">>
\* "What would you like to do today?"
WELCOME_PROMPT ==
    <<"W","h","a","t"," ","w","o","u","l","d"," ","y","o","u"," ","l","i","k","e"," ","t",
      "o"," ","d","o"," ","t","o","d","a","y","?">>
\* the pieces of the default introduction, gemini_service.py lines 62 and 127
INTRO_HEY ==
    <<"H","e","y"," ">>
INTRO_TIP ==
    <<"!"," ","W","o","l","f"," ","h","e","r","e","."," ","T","h","e"," ","m","a","r","k",
      "e","t","'","s"," ","l","o","o","k","i","n","'"," ","h","o","t"," ","t","o","d","a",
      "y","."," ","Y","o","u","r"," ","p","o","r","t","f","o","l","i","o"," ","i","s"," ",
      "h","o","l","d","i","n","g"," ","s","t","e","a","d","y","."," ","L","i","s","t","e",
      "n",","," ","I","'","v","e"," ","g","o","t"," ","a"," ","h","o","t"," ","t","i","p",
      " ","f","o","r"," ","y","o","u"," ","-"," ">>
INTRO_SHARES_OF ==
    <<" ","s","h","a","r","e","s"," ","o","f"," ">>
INTRO_DEAL ==
    <<" ","W","h","a","t"," ","d","o"," ","y","o","u"," ","t","h","i","n","k","?"," ","W",
      "a","n","t"," ","t","o"," ","p","u","l","l"," ","t","h","e"," ","t","r","i","g","g",
      "e","r"," ","o","n"," ","t","h","i","s"," ","d","e","a","l","?">>
\* user.get('name', 'buddy'): the users of the model have no name
BUDDY ==
    <<"b","u","d","d","y">>
\* the form field From as Twilio may send it: E.164, with punctuation, a
\* national number of ten digits, or missing
PHONE_U1_SPACED ==
    <<"+","1"," ","(","5","5","5",")"," ","0","0","0","1">>
PHONE_TEN_DIGITS ==
    <<"5","5","5","0","0","0","1","0","0","0">>
InboundNumbers ==
    {PHONE_U1, PHONE_U1_SPACED, PHONE_U2, PHONE_UNKNOWN, PHONE_TEN_DIGITS, NoPhone}
CallSids == {"CA1", "CA2"}

\* lines 810-817: the digits of the number, with +1 before ten digits and +
\* before any other number
format_phone(caller_number) ==
    LET digits_only == SelectSeq(caller_number, IsDigit) IN
    IF Len(digits_only) = 10 THEN <<"+", "1">> \o digits_only
    ELSE <<"+">> \o digits_only

\* line 821: the users whose phone_number is the formatted number
UsersWithPhone(formatted_phone) == {u \in DOMAIN users : phone_number[u] = formatted_phone}

\* gemini_service.py lines 43-127: the introduction; user_data None makes the
\* except clause raise again
default_intro(client_name, recommendation) ==
    INTRO_HEY \o client_name \o INTRO_TIP \o recommendation.action \o <<" ">>
       \o StrNum(recommendation.quantity) \o INTRO_SHARES_OF \o recommendation.ticker
       \o <<".", " ">> \o recommendation.rationale \o INTRO_DEAL
generate_broker_call_intro(user_data_none, mdl, recommended, reply) ==
    IF user_data_none THEN LMRaise
    ELSE IF mdl = "absent" \/ reply.kind = "raise"
      THEN LMText(default_intro(BUDDY, generate_stock_recommendation(mdl, recommended)))
    ELSE LMText(reply.text)

\* twilio_service.py lines 138-177: the introduction, then the prompt of the
\* Gather
generate_welcome_twiml(broker_intro) == <<broker_intro, WELCOME_PROMPT>>

\* lines 824-829 and 864-870: the two replies that end in a hangup
InboundAnswers(said) ==
    inbound' = [inbound EXCEPT !.pc = "done", !.said = said]
InboundFails == InboundAnswers(<<INBOUND_PROBLEM>>)

\* lines 802-842: the form is read, the caller is looked up; an unknown caller
\* is told to register, a known one gets a row in table calls.  raises names
\* the store call that raises.
InboundReceive(caller_number, call_sid, raises) ==
    /\ inbound.pc = "idle"
    /\ raises \in {"none", "select", "insert"}
    /\ LET formatted_phone == format_phone(caller_number)
           found == UsersWithPhone(formatted_phone)
           seen == [inbound EXCEPT !.caller_number = caller_number, !.call_sid = call_sid]
       IN
       IF caller_number = NoPhone
         THEN \* filter(str.isdigit, None) raises TypeError
              /\ raises = "none"
              /\ inbound' = [seen EXCEPT !.pc = "done", !.said = <<INBOUND_PROBLEM>>]
              /\ UNCHANGED <<call_rows, faults>>
       ELSE IF raises = "select"
         THEN /\ Raise
              /\ inbound' = [seen EXCEPT !.pc = "done", !.said = <<INBOUND_PROBLEM>>,
                                         !.formatted_phone = formatted_phone]
              /\ UNCHANGED call_rows
       ELSE IF found = {}
         THEN /\ raises = "none"
              /\ inbound' = [seen EXCEPT !.pc = "done", !.said = <<INBOUND_NO_ACCOUNT>>,
                                         !.formatted_phone = formatted_phone]
              /\ UNCHANGED <<call_rows, faults>>
       ELSE IF raises = "insert"
         THEN /\ Raise
              /\ inbound' = [seen EXCEPT !.pc = "done", !.said = <<INBOUND_PROBLEM>>,
                                         !.formatted_phone = formatted_phone]
              /\ UNCHANGED call_rows
       ELSE LET user_id == CHOOSE u \in found : TRUE IN
            /\ inbound' = [seen EXCEPT !.pc = "market", !.formatted_phone = formatted_phone,
                                       !.user_id = user_id]
            /\ call_rows' = Append(call_rows,
                                   [user_id |-> user_id, call_sid |-> call_sid,
                                    status |-> "in-progress",
                                    phone_number |-> formatted_phone,
                                    direction |-> "inbound"])
            /\ UNCHANGED faults
    /\ UNCHANGED <<users, portfolios, trades, nextId, task, running, returned, calls,
                   call_logs>>

\* line 845: get_market_summary returns its dict
InboundMarket ==
    /\ inbound.pc = "market"
    /\ inbound' = [inbound EXCEPT !.pc = "summary"]
    /\ UNCHANGED <<ledgerVars, call_rows, call_logs>>

\* line 846: get_user_summary returns the summary, or None when the user row
\* cannot be read
InboundSummary(read) ==
    /\ inbound.pc = "summary"
    /\ inbound' = [inbound EXCEPT !.pc = "intro", !.user_data_none = ~read]
    /\ IF read THEN UNCHANGED faults ELSE Raise
    /\ UNCHANGED <<users, portfolios, trades, nextId, task, running, returned, calls,
                   call_rows, call_logs>>

\* lines 849-852: the introduction and its TwiML
InboundIntro(recommended, reply) ==
    /\ inbound.pc = "intro"
    /\ LET broker_intro == generate_broker_call_intro(inbound.user_data_none, model,
                                                      recommended, reply)
       IN IF broker_intro.kind = "raise"
            THEN InboundFails
            ELSE inbound' = [inbound EXCEPT !.pc = "log", !.broker_intro = broker_intro.text]
    /\ UNCHANGED <<ledgerVars, call_rows, call_logs>>

\* lines 855-863: the introduction is logged and the TwiML returned
InboundRespond(raises) ==
    /\ inbound.pc = "log"
    /\ IF raises
         THEN Raise /\ InboundFails /\ UNCHANGED call_logs
         ELSE /\ call_logs' = Append(call_logs, LogEntry("outbound", inbound.broker_intro))
              /\ InboundAnswers(generate_welcome_twiml(inbound.broker_intro))
              /\ UNCHANGED faults
    /\ UNCHANGED <<users, portfolios, trades, nextId, task, running, returned, calls,
                   call_rows>>

InboundInit ==
    /\ LedgerInit
    /\ model \in Models
    /\ gem = NoGem
    /\ SpeechIdle
    /\ ApiIdle

InboundNext ==
    \/ \E caller_number \in InboundNumbers, call_sid \in CallSids,
          raises \in {"none", "select", "insert"} :
          InboundReceive(caller_number, call_sid, raises) /\ UNCHANGED OtherThanInbound
    \/ InboundMarket /\ UNCHANGED OtherThanInbound
    \/ \E read \in BOOLEAN : InboundSummary(read) /\ UNCHANGED OtherThanInbound
    \/ \E recommended \in JsonReplies, reply \in TextReplies :
          InboundIntro(recommended, reply) /\ UNCHANGED OtherThanInbound
    \/ \E raises \in BOOLEAN : InboundRespond(raises) /\ UNCHANGED OtherThanInbound

SpecInbound == InboundInit /\ [][InboundNext]_vars

\* ======================================================================
\* ElevenLabsTwilioService: the media streams of the calls
\* ======================================================================

\* the WebSocket connections and the stream ids of Twilio
Websockets == {"w1", "w2"}
StreamSids == {"MZ1", "MZ2"}
\* a key that a message lacks
NoSid == ""

\* A text message of a connection, after json.loads: its event, whether it has
\* a key 'start' (a dict or a str), the streamSid inside that dict and the
\* streamSid at the top; "garbage" is a text json.loads raises on
Message(event, start, start_sid, stream_sid) ==
    [event |-> event, start |-> start, start_sid |-> start_sid, stream_sid |-> stream_sid]
Messages ==
    {Message("start", "dict", s, NoSid) : s \in StreamSids}
    \cup {Message("start", "absent", NoSid, s) : s \in StreamSids}
    \cup {Message("start", "str", NoSid, s) : s \in StreamSids}
    \cup {Message("start", "dict", NoSid, "MZ1")}
    \cup {Message("stop", "absent", NoSid, s) : s \in StreamSids \cup {NoSid}}
    \cup {Message("media", "absent", NoSid, "MZ1"), Message("garbage", "absent", NoSid, NoSid)}

\* lines 52-56: the stream id of a start event
StartSid(data) ==
    IF data.start = "dict" THEN data.start_sid
    ELSE data.stream_sid

\* what text_to_speech gives: audio, nothing, or it raises
TtsResults == {"audio", "none", "raise"}

\* lines 111-115: the finally clause deletes the entries of the connection
CleanupNothing(entries, websocket) == entries
Cleanup(entries, websocket) ==
    [s \in {x \in DOMAIN entries : entries[x].websocket # websocket} |-> entries[s]]

\* del self.active_calls[stream_sid]
Delete(entries, stream_sid) == [s \in DOMAIN entries \ {stream_sid} |-> entries[s]]

\* handle_websocket returns for connection w, entries being active_calls when
\* the loop is left; the server then closes the connection
HandlerReturns(w, entries) ==
    /\ handler' = [handler EXCEPT ![w].pc = "returned", ![w].client = "gone"]
    /\ active_calls' = Cleanup(entries, w)

\* line 36: the connection is accepted; when accept raises, so does
\* handle_websocket
Accept(w, raises) ==
    /\ handler[w].pc = "closed"
    /\ handler' = [handler EXCEPT ![w].pc = IF raises THEN "raised" ELSE "receive",
                                  ![w].client = IF raises THEN "gone" ELSE "connected"]
    /\ UNCHANGED <<active_calls, frames>>

\* the client of the connection goes away
ClientLeaves(w) ==
    /\ handler[w].pc \notin {"closed", "raised", "returned"}
    /\ handler[w].client = "connected"
    /\ handler' = [handler EXCEPT ![w].client = "gone"]
    /\ UNCHANGED <<active_calls, frames>>

\* lines 42 and 107-115: receive_text raises WebSocketDisconnect
Disconnected(w) ==
    /\ handler[w].pc = "receive"
    /\ handler[w].client = "gone"
    /\ HandlerReturns(w, active_calls)
    /\ UNCHANGED frames

\* lines 42-105: a message is received and handled, up to the next await
Receive(w, data) ==
    /\ handler[w].pc = "receive"
    /\ handler[w].client = "connected"
    /\ IF data.event = "garbage"
         THEN \* json.loads raises: lines 109-115
              HandlerReturns(w, active_calls)
       ELSE IF data.event = "start"
         THEN LET stream_sid == StartSid(data) IN
              IF stream_sid = NoSid
                THEN UNCHANGED <<handler, active_calls>>
              ELSE IF data.start = "str"
                THEN \* line 62: data.get('start', {}).get raises AttributeError
                     HandlerReturns(w, active_calls)
              ELSE /\ active_calls' =
                         [s \in DOMAIN active_calls \cup {stream_sid} |->
                            IF s = stream_sid
                              THEN [stream_sid |-> stream_sid, websocket |-> w]
                              ELSE active_calls[s]]
                   /\ handler' = [handler EXCEPT ![w].pc = "greeting",
                                                 ![w].stream_sid = stream_sid]
       ELSE IF data.event = "stop"
         THEN HandlerReturns(w, Delete(active_calls, data.stream_sid))
       ELSE UNCHANGED <<handler, active_calls>>
    /\ UNCHANGED frames

\* lines 70-93: the data of the greeting arrive, or getting them raises and the
\* fallback greeting is taken; play_text is called with the one or the other
Greeting(w, raises) ==
    /\ handler[w].pc = "greeting"
    /\ handler' = [handler EXCEPT ![w].pc = "play",
                                  ![w].text = IF raises THEN "fallback" ELSE "intro"]
    /\ UNCHANGED <<active_calls, frames>>

\* play_text returns to the loop of the connection; its locals are gone
Played(w, result) ==
    handler' = [handler EXCEPT ![w].pc = "receive", ![w].played = result,
                               ![w].text = "", ![w].websocket = ""]

\* play_text, lines 128-138: without an entry of the stream it returns False;
\* with one it takes the websocket of the entry and awaits the speech
PlayText(w) ==
    /\ handler[w].pc = "play"
    /\ IF handler[w].stream_sid \notin DOMAIN active_calls
         THEN Played(w, "False")
         ELSE handler' = [handler EXCEPT
                            ![w].pc = "tts",
                            ![w].websocket = active_calls[handler[w].stream_sid].websocket]
    /\ UNCHANGED <<active_calls, frames>>

\* a connection that send_text can write to
Writable(websocket) == handler[websocket].client = "connected"

\* play_text, lines 138-160: the speech arrives and is sent as one media frame
SpeechReturns(w, audio_data) ==
    /\ handler[w].pc = "tts"
    /\ LET websocket == handler[w].websocket IN
       IF audio_data = "audio" /\ Writable(websocket)
         THEN /\ Len(frames[websocket]) < MaxFrames
              /\ frames' = [frames EXCEPT ![websocket] =
                              Append(@, [streamSid |-> handler[w].stream_sid,
                                         payload |-> handler[w].text])]
              /\ Played(w, "True")
         ELSE /\ Played(w, "False")
              /\ UNCHANGED frames
    /\ UNCHANGED active_calls

StreamInit ==
    /\ LedgerInit /\ GemIdle /\ SpeechIdle
    /\ lookup = NoLookup /\ request = NoRequest /\ active_connections = <<>>
    /\ inbound = NoInbound /\ call_rows = <<>>
    /\ active_calls = NoCalls
    /\ handler = [w \in Websockets |-> ClosedHandler]
    /\ frames = [w \in Websockets |-> <<>>]

StreamNext ==
    \/ \E w \in Websockets, raises \in BOOLEAN : Accept(w, raises) /\ UNCHANGED OtherThanStream
    \/ \E w \in Websockets : ClientLeaves(w) /\ UNCHANGED OtherThanStream
    \/ \E w \in Websockets : Disconnected(w) /\ UNCHANGED OtherThanStream
    \/ \E w \in Websockets, data \in Messages : Receive(w, data) /\ UNCHANGED OtherThanStream
    \/ \E w \in Websockets, raises \in BOOLEAN : Greeting(w, raises) /\ UNCHANGED OtherThanStream
    \/ \E w \in Websockets : PlayText(w) /\ UNCHANGED OtherThanStream
    \/ \E w \in Websockets, audio_data \in TtsResults :
          SpeechReturns(w, audio_data) /\ UNCHANGED OtherThanStream

SpecStream == StreamInit /\ [][StreamNext]_vars

\* ======================================================================
\* Properties
\* ======================================================================

RECURSIVE SumQty(_)
SumQty(S) == IF S = {} THEN 0
             ELSE LET r == CHOOSE x \in S : TRUE IN r.quantity + SumQty(S \ {r})

\* the rows and the shares a user holds of a ticker
RowsOf(rows, u, k) == {r \in rows : r.user_id = u /\ r.ticker = k}
Held(rows, u, k) == SumQty(RowsOf(rows, u, k))

StoreNext == [users |-> users', portfolios |-> portfolios', trades |-> trades']

\* coroutine t takes a step
Steps(t) == task'[t] # task[t]
\* coroutine t returns from the ledger part of a call
Ends(t) == task[t].pc \in StorePcs /\ task'[t].pc = "idle"
\* coroutine t returns success
Succeeds(t) == task[t].pc = "insert_trade" /\ task'[t].pc = "idle"
                  /\ returned'.status = "success"
\* coroutine t returns an error
Fails(t) == task'[t].pc = "idle" /\ returned'.status = "error"
IsTrade(tk) == Lower(tk.action) \in {"buy", "sell"}

\* C1: every call of execute_paper_trade (a buy or a sell), also one in which
\* a store write fails, leaves either all three of the cash balance, the
\* position and the trade log changed, or none of them.
C1_AllOrNothing ==
    [][\A t \in Tasks :
         (Ends(t) /\ IsTrade(task[t])) =>
            LET pre == task[t].pre IN
            \/ users' = pre.users /\ portfolios' = pre.portfolios /\ trades' = pre.trades
            \/ users' # pre.users /\ portfolios' # pre.portfolios /\ trades' # pre.trades]_vars

\* C2: calls for the same user that interleave at their awaits behave as if
\* run one after the other: the ledger parts of two calls never overlap, every
\* balance written is the balance in the store at that moment minus (buy) or
\* plus (sell) the trade value, every position written changes the shares held
\* at that moment by exactly the quantity, and a sell never takes more shares
\* than are held at that moment.
C2_Serialized ==
    [][\A t \in Tasks :
         LET tk == task[t] IN
         /\ \A t2 \in Tasks \ {t} :
               ~(task'[t].pc \in StorePcs /\ task'[t2].pc \in StorePcs)
         /\ (tk.pc = "update_cash" /\ task'[t].pc = "write_position") =>
               /\ Lower(tk.action) = "buy" =>
                     /\ users[tk.user_id] >= tk.trade_value
                     /\ users'[tk.user_id] = users[tk.user_id] - tk.trade_value
               /\ Lower(tk.action) = "sell" =>
                     users'[tk.user_id] = users[tk.user_id] + tk.trade_value
         /\ (tk.pc = "write_position" /\ task'[t].pc = "insert_trade") =>
               /\ Lower(tk.action) = "buy" =>
                     Held(portfolios', tk.user_id, tk.ticker)
                        = Held(portfolios, tk.user_id, tk.ticker) + tk.quantity
               /\ Lower(tk.action) = "sell" =>
                     /\ Held(portfolios, tk.user_id, tk.ticker) >= tk.quantity
                     /\ Held(portfolios', tk.user_id, tk.ticker)
                           = Held(portfolios, tk.user_id, tk.ticker) - tk.quantity]_vars

\* two sells of the same user and ticker are in flight together, one of them
\* past its writes of the balance and the position
W_C2 ==
    \E t1 \in Tasks : \E t2 \in Tasks \ {t1} :
       /\ task[t1].pc = "insert_trade" /\ task[t2].pc = "await_price"
       /\ Lower(task[t1].action) = "sell" /\ Lower(task[t2].action) = "sell"
       /\ task[t1].user_id = task[t2].user_id /\ task[t1].ticker = task[t2].ticker

\* C3: the cash balance of a user is never below 0, and a sell that was
\* accepted never asks for more shares than the user holds of the ticker.
C3_NoNegative ==
    /\ \A u \in DOMAIN users : users[u] >= 0
    /\ \A r \in portfolios : r.quantity >= 0
    /\ \A t \in Tasks :
          (Lower(task[t].action) = "sell"
             /\ task[t].pc \in {"select_cash", "update_cash", "write_position"}) =>
                Held(portfolios, task[t].user_id, task[t].ticker) >= task[t].quantity

\* a buy has used up the user's whole balance, and a sell of the shares
\* bought has been accepted
W_C3 ==
    /\ \E i \in 1..Len(trades) : trades[i].action = "buy" /\ users[trades[i].user_id] = 0
    /\ \E t \in Tasks : Lower(task[t].action) = "sell" /\ task[t].pc = "update_cash"

\* C4: a successful buy of q shares at price p lowers the balance by p*q and
\* raises the shares held by q; with no position before, the position created
\* has quantity q and average price p.
C4_Buy ==
    [][\A t \in Tasks :
         LET tk == task[t]
             pre == tk.pre
         IN
         (Succeeds(t) /\ Lower(tk.action) = "buy") =>
            /\ users'[tk.user_id] = pre.users[tk.user_id] - tk.price * tk.quantity
            /\ Held(portfolios', tk.user_id, tk.ticker)
                  = Held(pre.portfolios, tk.user_id, tk.ticker) + tk.quantity
            /\ RowsOf(pre.portfolios, tk.user_id, tk.ticker) = {} =>
                  \E r \in portfolios' :
                     /\ RowsOf(portfolios', tk.user_id, tk.ticker) = {r}
                     /\ r.quantity = tk.quantity
                     /\ r.avg_price = RatInt(tk.price)]_vars

\* a recorded buy of a ticker in which the user had no position
W_C4 ==
    \E i \in 1..Len(trades) : \E r \in portfolios :
       /\ trades[i].action = "buy"
       /\ r.id # 1 /\ r.user_id = trades[i].user_id /\ r.ticker = trades[i].ticker
       /\ r.quantity = trades[i].quantity /\ r.avg_price = RatInt(trades[i].price)

\* C5: a successful sell of q shares at price p raises the balance by p*q;
\* selling all the shares held deletes the position row, selling fewer leaves
\* the row with quantity old - q and the same average price.
C5_Sell ==
    [][\A t \in Tasks :
         LET tk == task[t]
             pre == tk.pre
             old == RowsOf(pre.portfolios, tk.user_id, tk.ticker)
         IN
         (Succeeds(t) /\ Lower(tk.action) = "sell") =>
            /\ users'[tk.user_id] = pre.users[tk.user_id] + tk.price * tk.quantity
            /\ \A o \in old :
                  IF o.quantity = tk.quantity
                    THEN RowsOf(portfolios', tk.user_id, tk.ticker) = {}
                    ELSE RowsOf(portfolios', tk.user_id, tk.ticker)
                            = {[o EXCEPT !.quantity = o.quantity - tk.quantity]}]_vars

\* u1 sold one of the two AAPL shares held: the row keeps its average price
W_C5 ==
    /\ \E i \in 1..Len(trades) :
          trades[i].action = "sell" /\ trades[i].user_id = "u1"
          /\ trades[i].ticker = "AAPL" /\ trades[i].quantity = 1
    /\ \E r \in portfolios : r.id = 1 /\ r.quantity = 1 /\ r.avg_price = RatInt(15000)

C7_Rejected ==
    [][\A t \in Tasks :
         LET tk == task[t] IN
         (Steps(t) /\
            \/ /\ tk.pc = "select_cash" /\ Lower(tk.action) = "buy"
               /\ tk.user_id \in DOMAIN users
               /\ users[tk.user_id] < tk.price * tk.quantity
            \/ /\ tk.pc = "select_portfolio" /\ Lower(tk.action) = "sell"
               /\ Held(portfolios, tk.user_id, tk.ticker) < tk.quantity) =>
            /\ Fails(t)
            /\ StoreNext = Store /\ StoreNext = tk.pre]_vars

\* a buy was refused for lack of funds or a sell for lack of shares, and the
\* store is as it was
W_C7 ==
    /\ returned.status = "error"
    /\ returned.message \in {"Insufficient funds for this trade",
                             "You only have fewer shares"}
    /\ Store = [users |-> InitialBalances, portfolios |-> InitialPortfolio,
                trades |-> <<>>]

\* C8: when the price lookup returns None the call returns an error and the
\* store is unchanged; no None price reaches the ledger part of a call, a
\* balance or a trade record.
C8_NoPrice ==
    [][\A t \in Tasks :
         /\ (task[t].pc = "await_price" /\ Steps(t)) =>
            /\ StoreNext = Store
            /\ \/ Fails(t)
               \/ /\ task'[t].pc = "select_portfolio"
                  /\ task'[t].price # None /\ task'[t].price > 0
         /\ task'[t].pc \in StorePcs =>
               task'[t].price # None /\ task'[t].trade_value >= 0]_vars

\* a call ended because no source had a price
W_C8 == returned = Result("error", "Could not get price")

QtyNotPositive(q) == IF q.tag = "int" THEN q.i <= 0 ELSE IntParses(q.s) /\ IntOfStr(q.s) <= 0
QtyNegative(q) == q.tag = "int" /\ q.i < 0

\* C9 as stated: a call with a zero or negative quantity is rejected: it changes
\* nothing and does not succeed.
C9_Original ==
    [][\A t \in Tasks :
         (task[t].pc # "idle" /\ QtyNotPositive(task[t].rawq) /\ Steps(t)) =>
            StoreNext = Store /\ ~Succeeds(t)]_vars

\* C9, amended: a call with quantity zero returns an error and changes nothing;
\* a call with a negative quantity -n is not rejected for its quantity: it goes
\* on as a trade of n shares, and the trade it records has quantity n.
C9_ZeroRejectedNegativeNegated ==
    [][/\ calls' = calls + 1 =>
             /\ StoreNext = Store
             /\ \/ task' = task /\ returned'.status = "error"
                \/ \E t \in Tasks :
                      /\ Steps(t) /\ task'[t].pc = "await_price"
                      /\ QtyNotPositive(task'[t].rawq) => QtyNegative(task'[t].rawq)
                      /\ QtyNegative(task'[t].rawq) =>
                            task'[t].quantity = -task'[t].rawq.i
                      \* the accepted call would have been accepted with any
                      \* negative quantity in place of its own
                      /\ \A q \in QuantityInputs :
                            QtyNegative(q) =>
                               /\ ArgsError(task'[t].user_id, task'[t].action,
                                            task'[t].ticker, q) = ""
                               /\ NormalQuantity(q) = -q.i
       /\ \A t \in Tasks :
             (Succeeds(t) /\ QtyNegative(task[t].rawq)) =>
                trades'[Len(trades')].quantity = -task[t].rawq.i]_vars

\* a call with a negative quantity has written a balance and a position and is
\* about to record its trade
W_C9 ==
    \E t \in Tasks : /\ task[t].pc = "insert_trade" /\ IsTrade(task[t])
                     /\ QtyNegative(task[t].rawq)
                     /\ task[t].quantity = -task[t].rawq.i
                     /\ users # task[t].pre.users

Prefix(log, n) == SubSeq(log, 1, n)

\* C11: a call that returns success appends exactly one trade record, a call
\* that returns an error appends none, and no step of any call changes or
\* removes a record that is already in the trade log.
C11_TradeLog ==
    [][/\ Len(trades') >= Len(trades) /\ Prefix(trades', Len(trades)) = trades
       /\ \A t \in Tasks :
             /\ Succeeds(t) =>
                   /\ Len(trades') = Len(task[t].pre.trades) + 1
                   /\ Prefix(trades', Len(trades') - 1) = task[t].pre.trades
             /\ (Ends(t) /\ returned'.status = "error") => trades' = task[t].pre.trades
       /\ (returned' # returned /\ returned'.status = "error") => trades' = trades]_vars

\* after one call has recorded its trade, another call has failed in its
\* ledger part
W_C11 == Len(trades) = 1 /\ returned = Result("error", "exception")

\* C17: for a ticker of the emergency table get_stock_price always has a price,
\* whatever the primary and the secondary source do: the awaited lookup of a
\* call for such a ticker never ends in "no price".
C17_FallbackTickerPriced ==
    [][\A t \in Tasks :
         (task[t].pc = "await_price" /\ Steps(t)
            /\ task[t].ticker \in DOMAIN fallback_prices) =>
            task'[t].pc = "select_portfolio" /\ task'[t].price # None]_vars

\* ------------------------------------------------ GeminiService claims
\* the model is there, and the call to it raised or its answer is no JSON
\* object with the three fields of an order
OrderGarbage == model = "present" /\ Garbage(gem.reply)
\* the same for the two prompts of parse_trading_intent
IntentGarbage ==
    /\ model = "present"
    /\ \/ gem.reply.kind = "raise"
       \/ /\ ~Contains(StrUpper(gem.reply.text), <<"C","O","N","V","E","R","S","A","T","I","O","N">>)
          /\ Garbage(gem.reply2)

\* C18: generate_trading_order and parse_trading_intent return, when the model
\* is there but raises or answers garbage, the intent they return for the same
\* utterance when the model is absent.
C18_GarbageAsAbsent ==
    /\ (gem.fn = "generate_trading_order" /\ OrderGarbage) =>
          gem.intent = generate_trading_order(gem.transcription, "absent", LMRaise)
    /\ (gem.fn = "parse_trading_intent" /\ IntentGarbage) =>
          gem.intent = parse_trading_intent(gem.transcription, "absent", LMRaise, LMRaise)

\* the features of an utterance the claim C19 names
HasConversationKeyword(u) == ContainsAny(StrLower(u), conversation_keywords)
HasBuyKeyword(u) == Contains(StrLower(u), <<"b","u","y">>)
KnownTickers(u) ==
    SelectSeq(Split(StrLower(u)),
              LAMBDA w : \E k \in DOMAIN common_tickers : common_tickers[k] = w)
DigitQuantities(u) == NumberWords(u)
IsTradeOf(intent, action, ticker, quantity) ==
    /\ ~intent.is_conversation
    /\ intent.action = action /\ intent.ticker = ticker /\ intent.quantity = quantity
IsConversation(intent) ==
    /\ intent.is_conversation
    /\ intent.action = NoneStr /\ intent.ticker = NoneStr /\ intent.quantity = None
ResolvedWithoutModel == gem.fn = "generate_trading_order" /\ model = "absent"

\* C19 as stated: with the model disabled every utterance with a buy keyword, a
\* known ticker and a digit quantity resolves to the buy of that quantity of
\* that ticker, and every utterance with a conversation keyword resolves to
\* Conversation.
C19_Original ==
    ResolvedWithoutModel =>
       LET u == gem.transcription IN
       /\ (HasBuyKeyword(u) /\ KnownTickers(u) # <<>> /\ DigitQuantities(u) # <<>>) =>
             IsTradeOf(gem.intent, <<"b","u","y">>, StrUpper(KnownTickers(u)[1]),
                       IntOfDigits(DigitQuantities(u)[1]))
       /\ HasConversationKeyword(u) => IsConversation(gem.intent)

\* C19, amended: with the model disabled the intent depends on the utterance
\* alone; an utterance with a conversation keyword resolves to Conversation with
\* no action, ticker or quantity, also when it has a buy keyword, a ticker and
\* a quantity; an utterance without a conversation keyword that has a buy
\* keyword, a known ticker and a digit quantity resolves to the buy of that
\* quantity of that ticker ("buy 10 shares of AAPL": buy, AAPL, 10).
C19_ConversationFirst ==
    ResolvedWithoutModel =>
       LET u == gem.transcription IN
       /\ \A r \in JsonReplies : gem.intent = generate_trading_order(u, model, r)
       /\ HasConversationKeyword(u) => IsConversation(gem.intent)
       /\ (/\ ~HasConversationKeyword(u) /\ HasBuyKeyword(u)
           /\ KnownTickers(u) # <<>> /\ DigitQuantities(u) # <<>>) =>
             IsTradeOf(gem.intent, <<"b","u","y">>, StrUpper(KnownTickers(u)[1]),
                       IntOfDigits(DigitQuantities(u)[1]))
       /\ u = U_BUY => IsTradeOf(gem.intent, <<"b","u","y">>, <<"A","A","P","L">>, 10)
       /\ u = U_MARKET => IsConversation(gem.intent)

\* "I think I want to buy 10 shares of AAPL" was resolved without the model
W_C19 ==
    /\ ResolvedWithoutModel /\ gem.transcription = U_THINK_BUY
    /\ IsConversation(gem.intent)

\* a dict of the model that has not all four fields of a recommendation
LacksField(o) ==
    \/ ~TruthyField(o.ticker) \/ ~TruthyField(o.action)
    \/ ~TruthyNum(o.quantity) \/ ~TruthyField(o.rationale)

\* C20: generate_stock_recommendation always returns a recommendation with a
\* ticker, an action, a quantity and a rationale, and it returns the canned
\* one (buy 10 AAPL) when the model is absent, raises, answers text that is no
\* JSON, or answers JSON that lacks one of the four fields.
C20_Recommendation ==
    gem.fn = "generate_stock_recommendation" =>
       /\ ~LacksField(gem.recommendation)
       /\ (\/ model = "absent" \/ gem.reply.kind # "json" \/ LacksField(gem.reply.obj)) =>
             /\ gem.recommendation = canned_recommendation
             /\ gem.recommendation.ticker = <<"A","A","P","L">>
             /\ gem.recommendation.action = <<"b","u","y">>
             /\ gem.recommendation.quantity = 10

\* the model answered JSON without a rationale and the canned recommendation
\* came back
W_C20 ==
    /\ gem.fn = "generate_stock_recommendation" /\ model = "present"
    /\ gem.reply.kind = "json" /\ TruthyField(gem.reply.obj.ticker)
    /\ ~TruthyField(gem.reply.obj.rationale)
    /\ gem.recommendation = canned_recommendation

\* ------------------------------------------------ process_speech claims
\* the utterance has one of the price-check cues in it
HasPriceCue(u) == ContainsAny(StrLower(u), price_check_keywords)
\* a step of a turn that calls execute_paper_trade
Executes == calls' = calls + 1
\* a step that ends the turn
TurnEnds == turn'.pc = "idle" /\ (turn.pc # "idle" \/ turn'.n = turn.n + 1)

\* C12: in a turn whose utterance has a price-check cue in it,
\* execute_paper_trade is not called, also when the utterance has a buy or sell
\* cue, a ticker and a quantity in it.
C12_PriceCheckNoTrade ==
    [][(turn.pc # "idle" /\ HasPriceCue(turn.transcription)) => ~Executes]_vars

\* the broker's last message of the call pitches shares of AAPL
LastPitch == recent_logs(call_logs)[1].content
PitchesAAPL ==
    /\ recent_logs(call_logs) # <<>>
    /\ Contains(LastPitch, Spelling["AAPL"])

\* C13: in a turn whose utterance is an affirmation, when the last outbound
\* entry of the call pitches N shares of AAPL, the trade (action, AAPL, N) is
\* executed: action is buy unless the pitch has a sell phrase in it, N is 10
\* when the pitch has no "<N> shares" in it; with the model and without it.
C13_AgreementExecutes ==
    [][(/\ turn.pc = "order" /\ turn'.pc # "order"
        /\ is_agreement(turn.transcription)
        /\ PitchesAAPL
        /\ faults' = faults)
       => /\ Executes
          /\ task'["t1"].pc = "await_price"
          /\ task'["t1"].user_id = turn.user_id
          /\ task'["t1"].action = Name(PitchAction(LastPitch))
          /\ task'["t1"].ticker = "AAPL"
          /\ task'["t1"].quantity = PitchQuantity(LastPitch)]_vars

\* the intent is a trade intent that lacks one of its three fields
LacksTradeField(intent) ==
    /\ ~intent.is_conversation
    /\ \/ ~TruthyField(intent.action) \/ ~TruthyField(intent.ticker)
       \/ ~TruthyNum(intent.quantity)

\* C14: in a turn resolved as a trade intent that lacks an action, a ticker or
\* a quantity, execute_paper_trade is not called, the store is left as it is
\* and the response is the clarification; a trade is executed only for an
\* intent that has the three fields.
C14_PartialTradeNotAttempted ==
    [][(turn.pc = "order" /\ turn'.pc \notin {"order", "idle"}
        /\ LacksTradeField(turn'.trading_intent))
       => /\ ~Executes
          /\ StoreNext = Store
          /\ turn'.broker_response = MISSING_INFORMATION]_vars

\* the TwiML says something
SaysSomething(said) == \E i \in DOMAIN said : said[i] # <<>>

\* C15: every turn returns a response that says something; a turn in which a
\* call of the store raises, or the model or the Quote Provider fails, ends
\* with the spoken fallback or with a response of its branch, never without one.
C15_AlwaysResponds ==
    [][/\ TurnEnds => SaysSomething(spoken')
       /\ (turn.pc # "trade" /\ faults' = faults + 1 /\ turn'.pc = "idle")
             => spoken' = <<PROBLEM, WHAT_TO_DO>>]_vars
\* a turn of a recognised caller has ended in the spoken fallback, after a call
\* of the store raised
W_C15 ==
    /\ turn.pc = "idle" /\ turn.n = 1 /\ faults = 1
    /\ spoken = <<PROBLEM, WHAT_TO_DO>>
    /\ call_logs # <<>> /\ call_logs[Len(call_logs)].direction = "inbound"

\* C16: a turn with an utterance of a recognised caller has appended two
\* entries to the transcript when it returns, the utterance as an inbound
\* entry and then the reply as an outbound entry, and the reply is the text
\* that the returned response says.
C16_TwoEntries ==
    [][(turn.pc # "idle" /\ turn'.pc = "idle")
       => /\ Len(call_logs') >= 2
          /\ call_logs'[Len(call_logs') - 1] = LogEntry("inbound", turn.transcription)
          /\ call_logs'[Len(call_logs')] = LogEntry("outbound", spoken'[1])]_vars

\* --------------------------------------------- get_user_portfolio claims
\* get_user_portfolio returns its result
PortfolioResult == lookup.pc = "gather" /\ lookup'.pc = "done" /\ ~lookup'.raised

\* the price of position i when every lookup has finished: what its own lookup
\* returned, or its stored average cost
OwnPrice(i) ==
    IF lookup.current_prices[i].kind = "price"
      THEN RatInt(lookup.current_prices[i].price)
      ELSE lookup.portfolio_data[i].avg_price

\* cash balance plus current price times quantity over the first n positions
RECURSIVE CashAndPositions(_)
CashAndPositions(n) ==
    IF n = 0 THEN RatInt(lookup.cash_balance)
    ELSE RatAdd(CashAndPositions(n - 1),
                RatMulInt(OwnPrice(n), lookup.portfolio_data[n].quantity))

\* get_user_portfolio starts a lookup for every position before it awaits any
AllStarted ==
    (lookup.pc = "idle" /\ lookup'.pc = "gather")
       => /\ Len(lookup'.current_prices) =
               Cardinality({r \in portfolios : r.user_id = lookup'.user_id})
          /\ \A i \in DOMAIN lookup'.current_prices : lookup'.current_prices[i] = RateLimited

\* every position is priced by its own lookup or by its average cost, whatever
\* the other lookups returned
OwnPrices ==
    PortfolioResult
       => /\ Len(lookup'.positions) = Len(lookup.portfolio_data)
          /\ \A i \in DOMAIN lookup.portfolio_data :
                /\ lookup'.positions[i].ticker = lookup.portfolio_data[i].ticker
                /\ lookup'.positions[i].current_price = OwnPrice(i)

\* C21 as stated: get_user_portfolio starts the lookups of all positions
\* together, each position is priced by its own lookup when that returned a
\* price and by its stored average cost otherwise, and portfolio_value is the
\* cash balance plus the sum of current price times quantity.
C21_Original ==
    [][/\ AllStarted
       /\ OwnPrices
       /\ PortfolioResult =>
             RatInt(lookup'.portfolio_value) = CashAndPositions(Len(lookup.portfolio_data))]_vars

\* C21, amended: the same, with portfolio_value being that sum rounded to two
\* decimals (a whole number of cents), as line 621 returns it.
C21_PricedIndependently ==
    [][/\ AllStarted
       /\ OwnPrices
       /\ PortfolioResult =>
             LET sum == CashAndPositions(Len(lookup.portfolio_data)) IN
             /\ 2 * sum.d * lookup'.portfolio_value <= 2 * sum.n + sum.d
             /\ 2 * sum.n - sum.d <= 2 * sum.d * lookup'.portfolio_value]_vars

\* u2's AAPL was priced live and its ZZZZ, whose lookup failed, at its average
\* cost of 20.00
W_C21 ==
    /\ lookup.pc = "done" /\ ~lookup.raised
    /\ Len(lookup.positions) = 2
    /\ lookup.current_prices[1].kind = "price"
    /\ lookup.positions[1].current_price = RatInt(lookup.current_prices[1].price)
    /\ lookup.current_prices[2].kind \in {"none", "exception"}
    /\ lookup.positions[2].current_price = RatInt(2000)
    /\ lookup.portfolio_value = 964162 + 2 * lookup.current_prices[1].price + 2000

\* ------------------------------------------- execute_paper_trade claims
\* a call of execute_paper_trade ends: at the argument checks, at the price
\* lookup or in the ledger part
CallEnds ==
    \/ calls' = calls + 1 /\ task' = task
    \/ \E t \in Tasks : task[t].pc # "idle" /\ task'[t].pc = "idle"

\* C22: execute_paper_trade never raises to its caller: whatever the arguments,
\* and whether the store or the Quote Provider fails, the call ends by
\* returning a result with a status, success or error, and a message.
C22_NeverRaises ==
    [][CallEnds => /\ returned'.status \in {"success", "error"}
                   /\ returned'.message # ""]_vars

\* a store call raised after the cash balance was written, and the call still
\* returned a result
W_C22 ==
    /\ faults = 1 /\ users # InitialBalances
    /\ \A t \in Tasks : task[t].pc = "idle"
    /\ returned.status = "error" /\ returned.message = "exception"

\* coroutine t is in a buy of k by u, between its read of the positions and
\* its write of the position
BuyInFlight(t, u, k) ==
    /\ task[t].pc \in {"select_cash", "update_cash", "write_position"}
    /\ Lower(task[t].action) = "buy" /\ task[t].user_id = u /\ task[t].ticker = k
\* coroutine t writes the position of a buy of k by u
BuyWrites(t, u, k) ==
    /\ task[t].pc = "write_position" /\ task'[t].pc = "insert_trade"
    /\ Lower(task[t].action) = "buy" /\ task[t].user_id = u /\ task[t].ticker = k

\* C23: under any interleaving of execute_paper_trade calls there is at most one
\* position row for each (user id, ticker): a buy that read no position still
\* finds none when it inserts its row, and every buy adds its shares to what
\* the user holds, so two concurrent first buys leave one position holding the
\* shares of both.
C23_OneRowPerPair ==
    [][\A u \in UserIds, k \in Tickers :
          /\ Cardinality(RowsOf(portfolios', u, k)) <= 1
          /\ \A t \in Tasks :
                /\ (BuyInFlight(t, u, k) /\ task[t].position = NoPos)
                      => RowsOf(portfolios, u, k) = {}
                /\ BuyWrites(t, u, k)
                      => Held(portfolios', u, k) = Held(portfolios, u, k) + task[t].quantity]_vars

\* two first buys of AAPL by u2 are in progress together: one has inserted the
\* position and the other, started before that, still waits for its price
W_C23 ==
    \E t, s \in Tasks :
       /\ task[t].pc = "insert_trade" /\ task[t].position = NoPos
       /\ Lower(task[t].action) = "buy" /\ task[t].user_id = "u2" /\ task[t].ticker = "AAPL"
       /\ task[s].pc = "await_price"
       /\ Lower(task[s].action) = "buy" /\ task[s].user_id = "u2" /\ task[s].ticker = "AAPL"
       /\ Cardinality(RowsOf(portfolios, "u2", "AAPL")) = 1

\* coroutine t writes the position of a sell of all the shares it read
SellsAll(t) ==
    /\ task[t].pc = "write_position" /\ task'[t].pc = "insert_trade"
    /\ Lower(task[t].action) = "sell"
    /\ task[t].position.quantity = task[t].quantity

\* C24: in every state that execute_paper_trade calls reach, every position row
\* has an integer quantity greater than 0; a sell of all the shares of a
\* position deletes its row rather than keeping it at zero.
C24_PositiveQuantity ==
    [][/\ \A r \in portfolios' : r.quantity \in Nat \ {0}
       /\ \A t \in Tasks :
             SellsAll(t) => \A r \in portfolios' : r.id # task[t].position.id]_vars

\* u1 sold the two AAPL shares it held and holds no AAPL row
W_C24 ==
    /\ \E i \in 1..Len(trades) :
          trades[i].action = "sell" /\ trades[i].user_id = "u1"
          /\ trades[i].ticker = "AAPL" /\ trades[i].quantity = 2
    /\ RowsOf(portfolios, "u1", "AAPL") = {}

\* C25: every trade record that execute_paper_trade appends has the action buy
\* or sell: a call with any other action appends no trade record and does not
\* return success.
C25_BuyOrSellOnly ==
    [][/\ \A i \in DOMAIN trades' : trades'[i].action \in {"buy", "sell"}
       /\ \A t \in Tasks :
             (task[t].pc # "idle" /\ task'[t].pc = "idle" /\ ~IsTrade(task[t]))
                => trades' = trades /\ returned'.status # "success"]_vars

\* the sum, over the first n trade records, of the column col of the records of
\* user u with the action a (and, when k is not "", the ticker k)
RECURSIVE Recorded(_, _, _, _, _)
Recorded(n, u, a, k, col) ==
    IF n = 0 THEN 0
    ELSE Recorded(n - 1, u, a, k, col)
         + (IF trades[n].user_id = u /\ trades[n].action = a /\ k \in {"", trades[n].ticker}
              THEN (IF col = "total_value" THEN trades[n].total_value ELSE trades[n].quantity)
              ELSE 0)

\* no call of execute_paper_trade is in progress
NoCallInProgress == \A t \in Tasks : task[t].pc = "idle"

\* C27: after any sequence of execute_paper_trade calls, successful or failed,
\* the cash balance of every user is the balance before the sequence minus the
\* total_value of the recorded buys plus the total_value of the recorded sells
\* of the user, and every held quantity is what was held before plus the shares
\* recorded as bought minus the shares recorded as sold.
C27_LedgerMatchesLog ==
    NoCallInProgress =>
       \A u \in Users :
          /\ users[u] = InitialBalances[u]
                          - Recorded(Len(trades), u, "buy", "", "total_value")
                          + Recorded(Len(trades), u, "sell", "", "total_value")
          /\ \A k \in Tickers :
                Held(portfolios, u, k) = Held(InitialPortfolio, u, k)
                                           + Recorded(Len(trades), u, "buy", k, "quantity")
                                           - Recorded(Len(trades), u, "sell", k, "quantity")

\* what the store holds of user v
TradesOf(log, v) == SelectSeq(log, LAMBDA r : r.user_id = v)
OwnedBy(v) ==
    [cash |-> IF v \in DOMAIN users THEN users[v] ELSE None,
     positions |-> {r \in portfolios : r.user_id = v},
     trades |-> TradesOf(trades, v)]
OwnedByNext(v) ==
    [cash |-> IF v \in DOMAIN users' THEN users'[v] ELSE None,
     positions |-> {r \in portfolios' : r.user_id = v},
     trades |-> TradesOf(trades', v)]

\* C28: a call of execute_paper_trade for one user leaves the cash balance, the
\* positions and the trade records of every other user unchanged, in each of
\* its steps, whether it succeeds or fails.
C28_OtherUsersUntouched ==
    [][/\ (calls' = calls + 1 /\ task' = task) => StoreNext = Store
       /\ \A t \in Tasks :
             Steps(t) =>
                LET u == IF task[t].pc = "idle" THEN task'[t].user_id ELSE task[t].user_id
                IN \A v \in UserIds \ {u} : OwnedByNext(v) = OwnedBy(v)]_vars

\* u2 bought AAPL, which u1 holds too: u1 has its cash and its position as before
W_C28 ==
    /\ returned.status = "success"
    /\ \E i \in 1..Len(trades) :
          trades[i].user_id = "u2" /\ trades[i].action = "buy" /\ trades[i].ticker = "AAPL"
    /\ RowsOf(portfolios, "u2", "AAPL") # {}
    /\ users["u1"] = InitialBalances["u1"]
    /\ {r \in portfolios : r.user_id = "u1"} = InitialPortfolio

\* ------------------------------------------------- execute_trade claims
\* C29: the endpoint POST /api/trades/execute answers with an error only when
\* the trade changed nothing in the cash, the positions and the trade log; once
\* execute_paper_trade has settled a trade, a failing verification read or
\* broadcast does not make the endpoint report an error.
C29_ErrorMeansNoChange ==
    (request.pc = "done" /\ request.status_code >= 400) => Store = request.pre

\* -------------------------------------------- handle_inbound_call claims
\* C26: when an inbound call has been handled, a user with the caller's phone
\* number exists (with or without the leading +): for a number that matched no
\* user, a user record was created.
C26_CallerHasUser ==
    (inbound.pc = "done" /\ inbound.caller_number # NoPhone)
       => \E u \in DOMAIN users :
             phone_number[u] \in {inbound.formatted_phone, Tail(inbound.formatted_phone)}

\* ------------------------------------------------- media stream claims
\* the entries of active_calls whose websocket is w
EntriesOf(entries, w) == {s \in DOMAIN entries : entries[s].websocket = w}

\* play_text is called by connection w for a stream without an entry
PlaysUnknown(w) ==
    handler[w].pc = "play" /\ handler[w].stream_sid \notin DOMAIN active_calls

\* C30: when handle_websocket has returned for a connection, after a stop
\* event, a disconnect or an error, active_calls has no entry whose websocket
\* is that connection; and play_text for a stream id that is not in
\* active_calls sends nothing and returns False.
C30_NoStaleEntry ==
    [][\A w \in Websockets :
          /\ handler'[w].pc = "returned" => EntriesOf(active_calls', w) = {}
          /\ (PlaysUnknown(w) /\ handler'[w].pc # "play")
                => /\ frames' = frames
                   /\ handler'[w].pc = "receive" /\ handler'[w].played = "False"]_vars

\* connection w1 returned after it had an entry and a frame was sent to it,
\* and w2, whose stream has no entry, got False from play_text
W_C30 ==
    /\ handler["w1"].pc = "returned" /\ frames["w1"] # <<>>
    /\ EntriesOf(active_calls, "w1") = {}
    /\ handler["w2"].pc = "receive" /\ handler["w2"].played = "False"
    /\ frames["w2"] = <<>>
    /\ handler["w2"].stream_sid \notin DOMAIN active_calls \cup {""}
====
